---- MODULE Spec2Model ----
(***************************************************************************)
(* A model of go-iradix-generic: the immutable radix tree, its             *)
(* copy-on-write transactions and the mutation notification (watch         *)
(* channels) of iradix.go / node.go / raw_iter.go.                         *)
(*                                                                         *)
(* The heap is explicit: a *Node is an index into `nodes`, a *leafNode is  *)
(* an index into `leaves`, and NIL is the nil pointer.  A node's mutateCh  *)
(* is the channel NodeCh(n), a leaf's mutateCh is LeafCh(l): every node    *)
(* and every leaf is allocated together with its own fresh channel, so     *)
(* the channel's identity is the identity of its owner.                    *)
(***************************************************************************)
EXTENDS Integers, Sequences, FiniteSets, TLC

VARIABLES
    nodes,      \* heap of Node structs: [prefix, leaf, edges]
    leaves,     \* heap of leafNode structs: [key, val]
    trees,      \* the Tree handles produced so far, as values [cacheProvider, channelLimit, root, size]
    txns,       \* the Txn objects the program holds (the fields of struct Txn)
    closed,     \* the mutateCh channels that have been closed
    panicked,   \* channels on which close() was called a second time (Go panics)
    hist,       \* per Txn: history of the calls made on it (observer's record)
    thist,      \* per Tree: what a reader observed when the handle was produced
    lastCall,   \* the last call that returned, with what it returned
    calls       \* the number of Insert/Delete/DeletePrefix calls made so far

vars == <<nodes, leaves, trees, txns, closed, panicked, hist, thist, lastCall, calls>>

----------------------------------------------------------------------------
(* Bounds of the model and the inputs the operations are called with.      *)

MaxOps == 2         \* Insert/Delete/DeletePrefix calls after Init
MaxDeepOps == 4     \* the same, in the runs that start from DeepKeySeqs
MaxTrees == 3       \* distinct Tree handles (the first one and the committed ones)

NIL == 0            \* the nil pointer
Zero == 0           \* the zero value of the value type T

Keys == {<<>>, <<1>>, <<1, 1>>, <<1, 2>>, <<1, 2, 1>>, <<2>>}
Vals == {2}            \* the trees the model starts from hold the value 1
\* the trees the model starts from: New() and these keys inserted in this order
InitKeySeqs == {<<>>, << <<1>> >>, << <<1>>, <<1, 1>> >>, << <<1, 1>>, <<1, 2>> >>,
                << <<1, 2, 1>>, <<1>> >>, << <<>>, <<2>> >>}
\* the one tree of the runs with MaxDeepOps calls
DeepKeySeqs == {<< <<1>>, <<1, 1>> >>}
CacheProviders == {"MapCache", "NoCache"}
ChannelLimits == {2, 64}

----------------------------------------------------------------------------
(* key.go                                                                  *)

Min(a, b) == IF a < b THEN a ELSE b

\* keyHasPrefix(s, prefix)
keyHasPrefix(s, prefix) ==
    /\ Len(prefix) <= Len(s)
    /\ \A i \in 1..Len(prefix) : s[i] = prefix[i]

\* longestPrefix(k1, k2): the length of the shared prefix
RECURSIVE longestPrefixFrom(_, _, _)
longestPrefixFrom(k1, k2, i) ==
    IF i < Min(Len(k1), Len(k2)) /\ k1[i + 1] = k2[i + 1]
    THEN longestPrefixFrom(k1, k2, i + 1)
    ELSE i

longestPrefix(k1, k2) == longestPrefixFrom(k1, k2, 0)

\* keyCompare(a, b) = slices.Compare(a, b): -1, 0 or 1
RECURSIVE keyCompareFrom(_, _, _)
keyCompareFrom(a, b, i) ==
    IF i > Len(a) \/ i > Len(b)
    THEN (IF Len(a) < Len(b) THEN -1 ELSE IF Len(a) > Len(b) THEN 1 ELSE 0)
    ELSE IF a[i] < b[i] THEN -1
    ELSE IF a[i] > b[i] THEN 1
    ELSE keyCompareFrom(a, b, i + 1)

keyCompare(a, b) == keyCompareFrom(a, b, 1)

Drop(s, n) == SubSeq(s, n + 1, Len(s))      \* s[n:]
Take(s, n) == SubSeq(s, 1, n)               \* s[:n]

----------------------------------------------------------------------------
(* node.go: channels, edges, lookup                                        *)

NodeCh(n) == <<"node", n>>      \* Node.mutateCh of node n
LeafCh(l) == <<"leaf", l>>      \* leafNode.mutateCh of leaf l

\* sort.Search(size, func(i) edges[i].label >= label), 0-based result
RECURSIVE searchEdges(_, _, _, _)
searchEdges(es, label, i, j) ==
    IF i < j
    THEN LET h == (i + j) \div 2
         IN  IF ~(es[h + 1].label >= label)
             THEN searchEdges(es, label, h + 1, j)
             ELSE searchEdges(es, label, i, h)
    ELSE i

\* Node.findEdge: [idx, ok], idx 0-based
findEdge(es, label) ==
    LET idx == searchEdges(es, label, 0, Len(es))
    IN  [idx |-> idx, ok |-> idx # Len(es) /\ es[idx + 1].label = label]

\* Node.findLowerBoundEdge: [idx, ok], idx 0-based
findLowerBoundEdge(es, label) ==
    LET idx == searchEdges(es, label, 0, Len(es))
    IN  [idx |-> idx, ok |-> idx # Len(es)]

\* Node.addEdge that appends the edge, whatever its label
addEdge_append(es, e) == Append(es, e)

addEdge_front(es, e) == <<e>> \o es

\* Node.addEdge: the edges of the node after n.addEdge(e)
addEdge(es, e) ==
    LET f == findLowerBoundEdge(es, e.label)
    IN  IF f.ok
        THEN Take(es, f.idx) \o <<e>> \o Drop(es, f.idx)
        ELSE Append(es, e)

\* Node.replaceEdge (the panic on a missing edge leaves the edges as they are)
replaceEdge(es, e) ==
    LET f == findEdge(es, e.label)
    IN  IF f.ok THEN [es EXCEPT ![f.idx + 1].node = e.node] ELSE es

\* Node.getEdge: [idx, node], idx 0-based, -1 and NIL when there is none
getEdge(es, label) ==
    LET f == findEdge(es, label)
    IN  IF f.ok THEN [idx |-> f.idx, node |-> es[f.idx + 1].node]
        ELSE [idx |-> -1, node |-> NIL]

\* Node.delEdge that leaves the edge where it is
delEdge_none(es, label) == es

\* Node.delEdge
delEdge(es, label) ==
    LET f == findEdge(es, label)
    IN  IF f.ok THEN Take(es, f.idx) \o Drop(es, f.idx + 1) ELSE es

\* Node.GetWatch on heap (ns, ls): [watch, val, ok]
RECURSIVE GetWatchLoop(_, _, _, _, _)
GetWatchLoop(ns, ls, n, search, watch) ==
    IF Len(search) = 0
    THEN IF ns[n].leaf # NIL
         THEN [watch |-> LeafCh(ns[n].leaf), val |-> ls[ns[n].leaf].val, ok |-> TRUE]
         ELSE [watch |-> watch, val |-> Zero, ok |-> FALSE]
    ELSE LET c == getEdge(ns[n].edges, search[1]).node
         IN  IF c = NIL
             THEN [watch |-> watch, val |-> Zero, ok |-> FALSE]
             ELSE IF keyHasPrefix(search, ns[c].prefix)
                  THEN GetWatchLoop(ns, ls, c, Drop(search, Len(ns[c].prefix)), NodeCh(c))
                  ELSE [watch |-> NodeCh(c), val |-> Zero, ok |-> FALSE]

GetWatch(ns, ls, n, k) == GetWatchLoop(ns, ls, n, k, NodeCh(n))

\* the nodes n takes in the loop of Node.GetWatch(k), the first one included
RECURSIVE LookupPathLoop(_, _, _)
LookupPathLoop(ns, n, search) ==
    IF Len(search) = 0 THEN {n}
    ELSE LET c == getEdge(ns[n].edges, search[1]).node
         IN  IF c = NIL THEN {n}
             ELSE IF keyHasPrefix(search, ns[c].prefix)
                  THEN {n} \cup LookupPathLoop(ns, c, Drop(search, Len(ns[c].prefix)))
                  ELSE {n, c}

LookupPath(ns, root, k) == LookupPathLoop(ns, root, k)

\* Node.Get: [val, ok]
Get(ns, ls, n, k) ==
    LET r == GetWatch(ns, ls, n, k) IN [val |-> r.val, ok |-> r.ok]

\* recursiveWalk with a function that collects and never aborts:
\* the sequence of [key, val] visited
RECURSIVE recursiveWalk(_, _, _)
RECURSIVE walkEdges(_, _, _, _)
recursiveWalk(ns, ls, n) ==
    (IF ns[n].leaf # NIL THEN <<ls[ns[n].leaf]>> ELSE <<>>)
        \o walkEdges(ns, ls, ns[n].edges, 1)
walkEdges(ns, ls, es, i) ==
    IF i > Len(es) THEN <<>>
    ELSE recursiveWalk(ns, ls, es[i].node) \o walkEdges(ns, ls, es, i + 1)

\* Node.Walk
Walk(ns, ls, n) == recursiveWalk(ns, ls, n)

----------------------------------------------------------------------------
(* cache.go: the writable-node cache of a transaction.  A nil cache and an *)
(* empty cache behave alike (writeNode creates the cache when it is nil),  *)
(* so t.writable is the set of nodes the cache holds.                      *)

\* a map cache that holds every node
CacheHas_always(t, n) == t.cacheProvider = "MapCache"

\* Cache.Has
CacheHas(t, n) == t.cacheProvider = "MapCache" /\ n \in t.writable

\* a cache whose Set stores nothing
CacheSet_none(t, n) == t.writable

\* Cache.Set: the cache contents after Set(n)
CacheSet(t, n) == IF t.cacheProvider = "MapCache" THEN t.writable \cup {n} ELSE t.writable

----------------------------------------------------------------------------
(* iradix.go: the transaction.  The recursive operations work on a machine *)
(* state M = [nodes, leaves, t]: the two heaps and the Txn struct t, and   *)
(* return the new machine state with their results.                        *)

\* trackChannel that sets the overflow flag and keeps the set
trackChannel_keepSet(M, ch) ==
    IF M.t.trackOverflow THEN M
    ELSE IF Cardinality(M.t.trackChannels) >= M.t.channelLimit
    THEN [M EXCEPT !.t.trackOverflow = TRUE]
    ELSE [M EXCEPT !.t.trackChannels = @ \cup {ch}]

\* Txn.trackChannel
trackChannel(M, ch) ==
    IF M.t.trackOverflow THEN M
    ELSE IF Cardinality(M.t.trackChannels) >= M.t.channelLimit
    THEN [M EXCEPT !.t.trackOverflow = TRUE, !.t.trackChannels = {}]
    ELSE [M EXCEPT !.t.trackChannels = @ \cup {ch}]

\* writeNode that hands out the node itself instead of a copy
writeNode_inPlace(M, n, forLeafUpdate) ==
    LET M1 == IF M.t.trackMutate
              THEN LET Ma == trackChannel(M, NodeCh(n))
                   IN  IF forLeafUpdate /\ M.nodes[n].leaf # NIL
                       THEN trackChannel(Ma, LeafCh(M.nodes[n].leaf))
                       ELSE Ma
              ELSE M
    IN  [M |-> [M1 EXCEPT !.t.writable = CacheSet(M1.t, n)], n |-> n]

\* writeNode that tracks the leaf signal whatever forLeafUpdate says
writeNode_trackLeaf(M, n, forLeafUpdate) ==
    IF CacheHas(M.t, n)
    THEN [M |-> IF M.t.trackMutate /\ M.nodes[n].leaf # NIL
                THEN trackChannel(M, LeafCh(M.nodes[n].leaf))
                ELSE M,
          n |-> n]
    ELSE LET M1 == IF M.t.trackMutate
                   THEN LET Ma == trackChannel(M, NodeCh(n))
                        IN  IF M.nodes[n].leaf # NIL
                            THEN trackChannel(Ma, LeafCh(M.nodes[n].leaf))
                            ELSE Ma
                   ELSE M
             nc == Len(M1.nodes) + 1
         IN  [M |-> [M1 EXCEPT !.nodes = Append(@, M1.nodes[n]),
                               !.t.writable = CacheSet(M1.t, nc)],
              n |-> nc]

\* writeNode that copies the first child along with the node
writeNode_deep(M, n, forLeafUpdate) ==
    IF CacheHas(M.t, n)
    THEN [M |-> IF M.t.trackMutate /\ forLeafUpdate /\ M.nodes[n].leaf # NIL
                THEN trackChannel(M, LeafCh(M.nodes[n].leaf))
                ELSE M,
          n |-> n]
    ELSE LET nc == Len(M.nodes) + 1
             es == M.nodes[n].edges
             copied == IF es = <<>> THEN <<M.nodes[n]>>
                       ELSE <<[M.nodes[n] EXCEPT !.edges[1].node = nc + 1], M.nodes[es[1].node]>>
         IN  [M |-> [M EXCEPT !.nodes = @ \o copied, !.t.writable = CacheSet(M.t, nc)],
              n |-> nc]

\* Txn.writeNode: [M, n], n the node to modify
writeNode(M, n, forLeafUpdate) ==
    IF CacheHas(M.t, n)
    THEN [M |-> IF M.t.trackMutate /\ forLeafUpdate /\ M.nodes[n].leaf # NIL
                THEN trackChannel(M, LeafCh(M.nodes[n].leaf))
                ELSE M,
          n |-> n]
    ELSE LET \* Ma: the machine state after t.trackChannel(n.mutateCh)
             trackLeaf(Ma) ==
                 IF forLeafUpdate /\ M.nodes[n].leaf # NIL
                 THEN trackChannel(Ma, LeafCh(M.nodes[n].leaf))
                 ELSE Ma
             \* M1: the machine state after the tracking; nc the copy of n
             copy(M1, nc) ==
                 [M |-> [M1 EXCEPT !.nodes = Append(@, M1.nodes[n]),
                                   !.t.writable = CacheSet(M1.t, nc)],
                  n |-> nc]
         IN  copy(IF M.t.trackMutate THEN trackLeaf(trackChannel(M, NodeCh(n))) ELSE M,
                  Len(M.nodes) + 1)

\* Txn.trackChannelsAndCount: [M, leaves]
RECURSIVE trackChannelsAndCount(_, _)
RECURSIVE trackEdges(_, _, _, _)
trackChannelsAndCount(M, n) ==
    LET nd == M.nodes[n]
        own == IF nd.leaf # NIL THEN 1 ELSE 0
        M1 == IF M.t.trackMutate THEN trackChannel(M, NodeCh(n)) ELSE M
        M2 == IF M.t.trackMutate /\ nd.leaf # NIL
              THEN trackChannel(M1, LeafCh(nd.leaf)) ELSE M1
        r == trackEdges(M2, nd.edges, 1, own)
    IN  r
trackEdges(M, es, i, count) ==
    IF i > Len(es) THEN [M |-> M, leaves |-> count]
    ELSE LET \* r: the result of t.trackChannelsAndCount(e.node)
             next(r) == trackEdges(r.M, es, i + 1, count + r.leaves)
         IN  next(trackChannelsAndCount(M, es[i].node))

\* mergeChild that merges nothing
mergeChild_none(M, n) ==
    IF M.t.trackMutate THEN trackChannel(M, NodeCh(M.nodes[n].edges[1].node)) ELSE M

\* mergeChild that gives n the prefix of the child alone
mergeChild_childPrefix(M, n) ==
    LET child == M.nodes[n].edges[1].node
        M1 == IF M.t.trackMutate THEN trackChannel(M, NodeCh(child)) ELSE M
    IN  [M1 EXCEPT !.nodes[n] = [prefix |-> M.nodes[child].prefix,
                                 leaf |-> M.nodes[child].leaf,
                                 edges |-> M.nodes[child].edges]]

\* mergeChild that leaves the prefix of n as it was
mergeChild_keepPrefix(M, n) ==
    LET child == M.nodes[n].edges[1].node
        M1 == IF M.t.trackMutate THEN trackChannel(M, NodeCh(child)) ELSE M
    IN  [M1 EXCEPT !.nodes[n] = [prefix |-> M.nodes[n].prefix,
                                 leaf |-> M.nodes[child].leaf,
                                 edges |-> M.nodes[child].edges]]

\* Txn.mergeChild: the machine state after t.mergeChild(n)
mergeChild(M, n) ==
    LET child == M.nodes[n].edges[1].node
        M1 == IF M.t.trackMutate THEN trackChannel(M, NodeCh(child)) ELSE M
    IN  [M1 EXCEPT !.nodes[n] = [prefix |-> M.nodes[n].prefix \o M.nodes[child].prefix,
                                 leaf |-> M.nodes[child].leaf,
                                 edges |-> M.nodes[child].edges]]

\* Txn.insert: [M, n, oldVal, didUpdate]
RECURSIVE insert(_, _, _, _, _)
insert(M, n, k, search, v) ==
    IF Len(search) = 0
    THEN \* key exhaustion
         LET isLeaf == M.nodes[n].leaf # NIL
             oldVal == IF isLeaf THEN M.leaves[M.nodes[n].leaf].val ELSE Zero
             \* w: the result of nc := t.writeNode(n, true)
             setLeaf(w) ==
                 [M |-> [w.M EXCEPT !.leaves = Append(@, [key |-> k, val |-> v]),
                                    !.nodes[w.n].leaf = Len(w.M.leaves) + 1],
                  n |-> w.n, oldVal |-> oldVal, didUpdate |-> isLeaf]
         IN  setLeaf(writeNode(M, n, TRUE))
    ELSE
    LET e == getEdge(M.nodes[n].edges, search[1])
        child == e.node
    IN  IF child = NIL
        THEN \* no edge, create one
             LET lf == Len(M.leaves) + 1
                 nn == Len(M.nodes) + 1
                 M1 == [M EXCEPT !.leaves = Append(@, [key |-> k, val |-> v]),
                                 !.nodes = Append(@, [prefix |-> search, leaf |-> lf,
                                                      edges |-> <<>>])]
                 \* w: the result of nc := t.writeNode(n, false)
                 link(w) ==
                     [M |-> [w.M EXCEPT !.nodes[w.n].edges =
                                            addEdge(@, [label |-> search[1], node |-> nn])],
                      n |-> w.n, oldVal |-> Zero, didUpdate |-> FALSE]
             IN  link(writeNode(M1, n, FALSE))
        ELSE
        LET commonPrefix == longestPrefix(search, M.nodes[child].prefix)
        IN  IF commonPrefix = Len(M.nodes[child].prefix)
            THEN LET \* w: the result of nc := t.writeNode(n, false)
                     relink(w, r) ==
                         [M |-> [w.M EXCEPT !.nodes[w.n].edges[e.idx + 1].node = r.n],
                          n |-> w.n, oldVal |-> r.oldVal, didUpdate |-> r.didUpdate]
                     \* r: the result of t.insert(child, k, search, v)
                     below(r) ==
                         IF r.n # NIL
                         THEN relink(writeNode(r.M, n, FALSE), r)
                         ELSE [M |-> r.M, n |-> NIL, oldVal |-> r.oldVal,
                               didUpdate |-> r.didUpdate]
                 IN  below(insert(M, child, k, Drop(search, commonPrefix), v))
            ELSE \* split the node
                 LET \* wc: the result of modChild := t.writeNode(child, false)
                     restore(wc, nc, splitNode) ==
                         LET modChild == wc.n
                             M3 == [wc.M EXCEPT !.nodes[splitNode].edges =
                                        addEdge(@, [label |-> wc.M.nodes[modChild].prefix[commonPrefix + 1],
                                                    node |-> modChild])]
                             M4 == [M3 EXCEPT !.nodes[modChild].prefix = Drop(@, commonPrefix)]
                             \* create a new leaf node
                             leaf == Len(wc.M.leaves) + 1
                             M5 == [M4 EXCEPT !.leaves = Append(@, [key |-> k, val |-> v])]
                             rest == Drop(search, commonPrefix)
                             nn == Len(wc.M.nodes) + 1
                         IN  IF Len(rest) = 0
                             THEN [M |-> [M5 EXCEPT !.nodes[splitNode].leaf = leaf],
                                   n |-> nc, oldVal |-> Zero, didUpdate |-> FALSE]
                             ELSE [M |-> [M5 EXCEPT
                                             !.nodes = Append(@, [prefix |-> rest, leaf |-> leaf,
                                                                  edges |-> <<>>]),
                                             !.nodes[splitNode].edges =
                                                 addEdge(@, [label |-> rest[1], node |-> nn])],
                                   n |-> nc, oldVal |-> Zero, didUpdate |-> FALSE]
                     \* w: the result of nc := t.writeNode(n, false)
                     split(w) ==
                         LET splitNode == Len(w.M.nodes) + 1
                             M1 == [w.M EXCEPT !.nodes = Append(@, [prefix |-> Take(search, commonPrefix),
                                                                    leaf |-> NIL, edges |-> <<>>])]
                             M2 == [M1 EXCEPT !.nodes[w.n].edges =
                                        replaceEdge(@, [label |-> search[1], node |-> splitNode])]
                         IN  restore(writeNode(M2, child, FALSE), w.n, splitNode)
                 IN  split(writeNode(M, n, FALSE))

\* the tail shared by Txn.delete and Txn.deletePrefix after the recursive call:
\* copy this node, delete the edge of an emptied child (and merge), or relink
relinkChild(M, n, label, idx, newChild) ==
    LET \* w: the result of nc := t.writeNode(n, false)
        link(w) ==
            LET nc == w.n
                M1 == [w.M EXCEPT !.nodes[nc].edges = delEdge(@, label)]
            IN  IF w.M.nodes[newChild].leaf = NIL /\ Len(w.M.nodes[newChild].edges) = 0
                THEN [M |-> IF n # M.t.root /\ Len(M1.nodes[nc].edges) = 1
                               /\ M1.nodes[nc].leaf = NIL
                            THEN mergeChild(M1, nc) ELSE M1,
                      n |-> nc]
                ELSE [M |-> [w.M EXCEPT !.nodes[nc].edges[idx + 1].node = newChild], n |-> nc]
    IN  link(writeNode(M, n, FALSE))

\* Txn.delete: [M, n, leaf]
RECURSIVE delete(_, _, _)
delete(M, n, search) ==
    IF Len(search) = 0
    THEN IF M.nodes[n].leaf = NIL
         THEN [M |-> M, n |-> NIL, leaf |-> NIL]
         ELSE LET oldLeaf == M.nodes[n].leaf
                  \* w: the result of nc := t.writeNode(n, true)
                  unset(w) ==
                      LET nc == w.n
                          M1 == [w.M EXCEPT !.nodes[nc].leaf = NIL]
                      IN  [M |-> IF n # M.t.root /\ Len(M1.nodes[nc].edges) = 1
                                 THEN mergeChild(M1, nc) ELSE M1,
                           n |-> nc, leaf |-> oldLeaf]
              IN  unset(writeNode(M, n, TRUE))
    ELSE
    LET label == search[1]
        e == getEdge(M.nodes[n].edges, label)
        child == e.node
        relinked(u, r) == [M |-> u.M, n |-> u.n, leaf |-> r.leaf]
        \* r: the result of t.delete(child, search)
        below(r) ==
            IF r.n = NIL
            THEN [M |-> r.M, n |-> NIL, leaf |-> NIL]
            ELSE relinked(relinkChild(r.M, n, label, e.idx, r.n), r)
    IN  IF child = NIL \/ ~keyHasPrefix(search, M.nodes[child].prefix)
        THEN [M |-> M, n |-> NIL, leaf |-> NIL]
        ELSE below(delete(M, child, Drop(search, Len(M.nodes[child].prefix))))

\* Txn.deletePrefix that follows an edge only when the whole prefix of the child
\* is a prefix of what is left of the search key
RECURSIVE deletePrefix_wholeNodes(_, _, _)
deletePrefix_wholeNodes(M, n, search) ==
    IF Len(search) = 0
    THEN LET counted(c, nc) == [M |-> c.M, n |-> nc, numDeletions |-> c.leaves]
             cut(w) ==
                 LET nc == w.n
                     M1 == IF w.M.nodes[n].leaf # NIL
                           THEN [w.M EXCEPT !.nodes[nc].leaf = NIL] ELSE w.M
                     M2 == [M1 EXCEPT !.nodes[nc].edges = <<>>]
                 IN  counted(trackChannelsAndCount(M2, n), nc)
         IN  cut(writeNode(M, n, TRUE))
    ELSE
    LET label == search[1]
        e == getEdge(M.nodes[n].edges, label)
        child == e.node
        relinked(u, r) == [M |-> u.M, n |-> u.n, numDeletions |-> r.numDeletions]
        below(r) ==
            IF r.n = NIL
            THEN [M |-> r.M, n |-> NIL, numDeletions |-> 0]
            ELSE relinked(relinkChild(r.M, n, label, e.idx, r.n), r)
    IN  IF child = NIL \/ ~keyHasPrefix(search, M.nodes[child].prefix)
        THEN [M |-> M, n |-> NIL, numDeletions |-> 0]
        ELSE below(deletePrefix_wholeNodes(M, child, Drop(search, Len(M.nodes[child].prefix))))

\* Txn.deletePrefix: [M, n, numDeletions]
RECURSIVE deletePrefix(_, _, _)
deletePrefix(M, n, search) ==
    IF Len(search) = 0
    THEN LET \* c: the result of t.trackChannelsAndCount(n)
             counted(c, nc) == [M |-> c.M, n |-> nc, numDeletions |-> c.leaves]
             \* w: the result of nc := t.writeNode(n, true)
             cut(w) ==
                 LET nc == w.n
                     M1 == IF w.M.nodes[n].leaf # NIL
                           THEN [w.M EXCEPT !.nodes[nc].leaf = NIL] ELSE w.M
                     M2 == [M1 EXCEPT !.nodes[nc].edges = <<>>]
                 IN  counted(trackChannelsAndCount(M2, n), nc)
         IN  cut(writeNode(M, n, TRUE))
    ELSE
    LET label == search[1]
        e == getEdge(M.nodes[n].edges, label)
        child == e.node
        relinked(u, r) == [M |-> u.M, n |-> u.n, numDeletions |-> r.numDeletions]
        \* r: the result of t.deletePrefix(child, search)
        below(r) ==
            IF r.n = NIL
            THEN [M |-> r.M, n |-> NIL, numDeletions |-> 0]
            ELSE relinked(relinkChild(r.M, n, label, e.idx, r.n), r)
    IN  IF child = NIL
           \/ (~keyHasPrefix(M.nodes[child].prefix, search)
               /\ ~keyHasPrefix(search, M.nodes[child].prefix))
        THEN [M |-> M, n |-> NIL, numDeletions |-> 0]
        ELSE below(deletePrefix(M, child,
                                IF Len(M.nodes[child].prefix) > Len(search)
                                THEN <<>>
                                ELSE Drop(search, Len(M.nodes[child].prefix))))

\* Txn.Insert that counts every call as a new key
TxnInsert_alwaysGrow(M, k, v) ==
    LET done(r) ==
            LET M1 == IF r.n # NIL THEN [r.M EXCEPT !.t.root = r.n] ELSE r.M
            IN  [M |-> [M1 EXCEPT !.t.size = @ + 1],
                 oldVal |-> r.oldVal, didUpdate |-> r.didUpdate]
    IN  done(insert(M, M.t.root, k, k, v))

\* Txn.Insert: [M, oldVal, didUpdate], M.t the transaction after the call
TxnInsert(M, k, v) ==
    LET \* r: the result of t.insert(t.root, k, k, v)
        done(r) ==
            LET M1 == IF r.n # NIL THEN [r.M EXCEPT !.t.root = r.n] ELSE r.M
                M2 == IF ~r.didUpdate THEN [M1 EXCEPT !.t.size = @ + 1] ELSE M1
            IN  [M |-> M2, oldVal |-> r.oldVal, didUpdate |-> r.didUpdate]
    IN  done(insert(M, M.t.root, k, k, v))

\* Txn.Delete that lowers the size also when it found no leaf
TxnDelete_countAbsent(M, k) ==
    LET done(r) ==
            LET M1 == IF r.n # NIL THEN [r.M EXCEPT !.t.root = r.n] ELSE r.M
            IN  [M |-> [M1 EXCEPT !.t.size = @ - 1],
                 val |-> IF r.leaf # NIL THEN M.leaves[r.leaf].val ELSE Zero,
                 ok |-> r.leaf # NIL]
    IN  done(delete(M, M.t.root, k))

\* Txn.Delete: [M, val, ok]
TxnDelete(M, k) ==
    LET \* r: the result of t.delete(t.root, k)
        done(r) ==
            LET M1 == IF r.n # NIL THEN [r.M EXCEPT !.t.root = r.n] ELSE r.M
            IN  IF r.leaf # NIL
                THEN [M |-> [M1 EXCEPT !.t.size = @ - 1],
                      val |-> M.leaves[r.leaf].val, ok |-> TRUE]
                ELSE [M |-> M1, val |-> Zero, ok |-> FALSE]
    IN  done(delete(M, M.t.root, k))

\* Txn.DeletePrefix: [M, ok]
TxnDeletePrefix(M, prefix) ==
    LET \* r: the result of t.deletePrefix(t.root, prefix)
        done(r) ==
            IF r.n # NIL
            THEN [M |-> [r.M EXCEPT !.t.root = r.n, !.t.size = @ - r.numDeletions],
                  ok |-> TRUE]
            ELSE [M |-> r.M, ok |-> FALSE]
    IN  done(deletePrefix(M, M.t.root, prefix))

----------------------------------------------------------------------------
(* raw_iter.go: the iterator over every node, with its effective path.     *)
(* An iterator is [node, stack, stackNil, pos, path]; a stack entry is     *)
(* [path, edges].                                                          *)

\* rawIterator.Next: the iterator after i.Next()
rawNext(ns, i) ==
    LET stack0 == IF i.stackNil /\ i.node # NIL
                  THEN <<[path |-> <<>>, edges |-> <<[label |-> 0, node |-> i.node]>>]>>
                  ELSE i.stack
        nil0 == i.stackNil /\ i.node = NIL
    IN  IF Len(stack0) > 0
        THEN LET n == Len(stack0)
                 last == stack0[n]
                 elem == last.edges[1].node
                 stack1 == IF Len(last.edges) > 1
                           THEN [stack0 EXCEPT ![n].edges = Tail(last.edges)]
                           ELSE Take(stack0, n - 1)
                 path == last.path \o ns[elem].prefix
                 stack2 == IF Len(ns[elem].edges) > 0
                           THEN Append(stack1, [path |-> path, edges |-> ns[elem].edges])
                           ELSE stack1
             IN  [node |-> i.node, stack |-> stack2, stackNil |-> FALSE,
                  pos |-> elem, path |-> path]
        ELSE [node |-> i.node, stack |-> stack0, stackNil |-> nil0,
              pos |-> NIL, path |-> <<>>]

\* Node.rawIterator
rawIterator(ns, n) ==
    rawNext(ns, [node |-> n, stack |-> <<>>, stackNil |-> TRUE, pos |-> NIL, path |-> <<>>])

----------------------------------------------------------------------------
(* iradix.go: notification                                                 *)

\* slowNotify that forgets the leaf of a snapshot node that is gone
closeNodeAndLeaf_nodeOnly(ns, n) == <<NodeCh(n)>>

\* the close() calls slowNotify makes for a snapshot node that is gone
closeNodeAndLeaf(ns, n) ==
    <<NodeCh(n)>> \o (IF ns[n].leaf # NIL THEN <<LeafCh(ns[n].leaf)>> ELSE <<>>)

\* Txn.slowNotify: the sequence of channels it calls close() on, in order
RECURSIVE slowNotifyLoop(_, _, _)
slowNotifyLoop(ns, snapIter, rootIter) ==
    IF ~(snapIter.pos # NIL \/ rootIter.pos # NIL) THEN <<>>
    ELSE IF snapIter.pos = NIL THEN <<>>
    ELSE
    LET snapElem == snapIter.pos
    IN  IF rootIter.pos = NIL
        THEN closeNodeAndLeaf(ns, snapElem) \o slowNotifyLoop(ns, rawNext(ns, snapIter), rootIter)
        ELSE
        LET cmp == keyCompare(snapIter.path, rootIter.path)
            rootElem == rootIter.pos
        IN  IF cmp < 0
            THEN closeNodeAndLeaf(ns, snapElem)
                     \o slowNotifyLoop(ns, rawNext(ns, snapIter), rootIter)
            ELSE IF cmp > 0
            THEN slowNotifyLoop(ns, snapIter, rawNext(ns, rootIter))
            ELSE (IF snapElem # rootElem
                  THEN <<NodeCh(snapElem)>>
                       \o (IF ns[snapElem].leaf # NIL /\ ns[snapElem].leaf # ns[rootElem].leaf
                           THEN <<LeafCh(ns[snapElem].leaf)>> ELSE <<>>)
                  ELSE <<>>)
                 \o slowNotifyLoop(ns, rawNext(ns, snapIter), rawNext(ns, rootIter))

slowNotify(ns, t) == slowNotifyLoop(ns, rawIterator(ns, t.snap), rawIterator(ns, t.root))

\* close(ch) for each channel of chs in order; closing a closed channel panics
\* and ends the call: [closed, panic]
RECURSIVE closeSeq(_, _, _)
closeSeq(chs, i, cl) ==
    IF i > Len(chs) THEN [closed |-> cl, panic |-> {}]
    ELSE IF chs[i] \in cl THEN [closed |-> cl, panic |-> {chs[i]}]
    ELSE closeSeq(chs, i + 1, cl \cup {chs[i]})

\* Notify that leaves the overflow flag set
TxnNotify_keepOverflow(ns, t, cl) ==
    IF ~t.trackMutate THEN {[t |-> t, closed |-> cl, panic |-> {}, ran |-> FALSE]}
    ELSE
    LET cleaned == [t EXCEPT !.trackChannels = {}]
    IN  IF t.trackOverflow
        THEN LET r == closeSeq(slowNotify(ns, t), 1, cl)
             IN  {[t |-> IF r.panic = {} THEN cleaned ELSE t,
                   closed |-> r.closed, panic |-> r.panic, ran |-> r.panic = {}]}
        ELSE IF t.trackChannels \cap cl = {}
        THEN {[t |-> cleaned, closed |-> cl \cup t.trackChannels, panic |-> {}, ran |-> TRUE]}
        ELSE {[t |-> t, closed |-> cl \cup S, panic |-> {d}, ran |-> FALSE] :
                 S \in SUBSET (t.trackChannels \ cl), d \in t.trackChannels \cap cl}

\* Txn.Notify (TxnNotify): the possible results [t, closed, panic, ran] of t.Notify() when
\* the channels cl are closed.  The range over the map trackChannels closes in an
\* unspecified order, so a panic may come after any part of the open ones.
TxnNotify(ns, t, cl) ==
    IF ~t.trackMutate THEN {[t |-> t, closed |-> cl, panic |-> {}, ran |-> FALSE]}
    ELSE
    LET cleaned == [t EXCEPT !.trackChannels = {}, !.trackOverflow = FALSE]
    IN  IF t.trackOverflow
        THEN {[t |-> IF r.panic = {} THEN cleaned ELSE t,
               closed |-> r.closed, panic |-> r.panic, ran |-> r.panic = {}] :
                 r \in {closeSeq(slowNotify(ns, t), 1, cl)}}
        ELSE IF t.trackChannels \cap cl = {}
        THEN {[t |-> cleaned, closed |-> cl \cup t.trackChannels, panic |-> {}, ran |-> TRUE]}
        ELSE {[t |-> t, closed |-> cl \cup S, panic |-> {d}, ran |-> FALSE] :
                 S \in SUBSET (t.trackChannels \ cl), d \in t.trackChannels \cap cl}

\* CommitOnly that keeps the writable node cache
TxnCommitOnly_keepWritable(t) ==
    [t |-> t,
     tree |-> [cacheProvider |-> t.cacheProvider, channelLimit |-> t.channelLimit,
               root |-> t.root, size |-> t.size]]

\* Txn.CommitOnly: [t, tree]
TxnCommitOnly(t) ==
    [t |-> [t EXCEPT !.writable = {}],
     tree |-> [cacheProvider |-> t.cacheProvider, channelLimit |-> t.channelLimit,
               root |-> t.root, size |-> t.size]]

\* Tree.Txn
TreeTxn(tree) ==
    [cacheProvider |-> tree.cacheProvider, channelLimit |-> tree.channelLimit,
     root |-> tree.root, snap |-> tree.root, size |-> tree.size,
     writable |-> {}, trackChannels |-> {}, trackOverflow |-> FALSE, trackMutate |-> FALSE]

\* Txn.Clone without the reset of the original's writable node cache
TxnClone_keepWritable(t) ==
    [t |-> t,
     txn |-> [cacheProvider |-> t.cacheProvider, channelLimit |-> t.channelLimit,
              root |-> t.root, snap |-> t.snap, size |-> t.size,
              writable |-> {}, trackChannels |-> {}, trackOverflow |-> FALSE,
              trackMutate |-> FALSE]]

\* Txn.Clone whose clone inherits the tracking of the original
TxnClone_keepTracking(t) ==
    [t |-> [t EXCEPT !.writable = {}],
     txn |-> [cacheProvider |-> t.cacheProvider, channelLimit |-> t.channelLimit,
              root |-> t.root, snap |-> t.snap, size |-> t.size,
              writable |-> {}, trackChannels |-> t.trackChannels,
              trackOverflow |-> t.trackOverflow, trackMutate |-> t.trackMutate]]

\* Txn.Clone: [t, txn], t the original after the call and txn the clone
TxnClone(t) ==
    [t |-> [t EXCEPT !.writable = {}],
     txn |-> [cacheProvider |-> t.cacheProvider, channelLimit |-> t.channelLimit,
              root |-> t.root, snap |-> t.snap, size |-> t.size,
              writable |-> {}, trackChannels |-> {}, trackOverflow |-> FALSE,
              trackMutate |-> FALSE]]

----------------------------------------------------------------------------
(* node.go: the other reads of a tree.  A function that takes a WalkFn is  *)
(* modelled with a function that collects and never aborts: the result is  *)
(* the sequence of the leaves [key, val] it was called with.               *)

\* keyEqual(a, b)
keyEqual(a, b) == Len(a) = Len(b) /\ \A i \in 1..Len(a) : a[i] = b[i]

\* Node.LongestPrefix that keeps the first leaf on the path, not the last
RECURSIVE LongestPrefixLoop_first(_, _, _, _, _)
LongestPrefixLoop_first(ns, ls, n, search, last) ==
    LET last1 == IF ns[n].leaf # NIL /\ last = NIL THEN ns[n].leaf ELSE last
        result == IF last1 # NIL
                  THEN [key |-> ls[last1].key, val |-> ls[last1].val, ok |-> TRUE]
                  ELSE [key |-> <<>>, val |-> Zero, ok |-> FALSE]
    IN  IF Len(search) = 0 THEN result
        ELSE LET c == getEdge(ns[n].edges, search[1]).node
             IN  IF c = NIL THEN result
                 ELSE IF keyHasPrefix(search, ns[c].prefix)
                      THEN LongestPrefixLoop_first(ns, ls, c, Drop(search, Len(ns[c].prefix)), last1)
                      ELSE result

\* Node.LongestPrefix: [key, val, ok]
RECURSIVE LongestPrefixLoop(_, _, _, _, _)
LongestPrefixLoop(ns, ls, n, search, last) ==
    LET last1 == IF ns[n].leaf # NIL THEN ns[n].leaf ELSE last
        result == IF last1 # NIL
                  THEN [key |-> ls[last1].key, val |-> ls[last1].val, ok |-> TRUE]
                  ELSE [key |-> <<>>, val |-> Zero, ok |-> FALSE]
    IN  IF Len(search) = 0 THEN result
        ELSE LET c == getEdge(ns[n].edges, search[1]).node
             IN  IF c = NIL THEN result
                 ELSE IF keyHasPrefix(search, ns[c].prefix)
                      THEN LongestPrefixLoop(ns, ls, c, Drop(search, Len(ns[c].prefix)), last1)
                      ELSE result

LongestPrefix(ns, ls, n, k) == LongestPrefixLoop(ns, ls, n, k, NIL)

\* Node.WalkPrefix without the case of a prefix that ends inside a node's prefix
RECURSIVE WalkPrefixLoop_wholeNodes(_, _, _, _)
WalkPrefixLoop_wholeNodes(ns, ls, n, search) ==
    IF Len(search) = 0 THEN recursiveWalk(ns, ls, n)
    ELSE LET c == getEdge(ns[n].edges, search[1]).node
         IN  IF c = NIL THEN <<>>
             ELSE IF keyHasPrefix(search, ns[c].prefix)
                  THEN WalkPrefixLoop_wholeNodes(ns, ls, c, Drop(search, Len(ns[c].prefix)))
                  ELSE <<>>

\* Node.WalkPrefix
RECURSIVE WalkPrefixLoop(_, _, _, _)
WalkPrefixLoop(ns, ls, n, search) ==
    IF Len(search) = 0 THEN recursiveWalk(ns, ls, n)
    ELSE LET c == getEdge(ns[n].edges, search[1]).node
         IN  IF c = NIL THEN <<>>
             ELSE IF keyHasPrefix(search, ns[c].prefix)
                  THEN WalkPrefixLoop(ns, ls, c, Drop(search, Len(ns[c].prefix)))
                  ELSE IF keyHasPrefix(ns[c].prefix, search)
                       THEN recursiveWalk(ns, ls, c)
                       ELSE <<>>

WalkPrefix(ns, ls, n, prefix) == WalkPrefixLoop(ns, ls, n, prefix)

\* Node.Minimum: [key, val, ok]
RECURSIVE Minimum(_, _, _)
Minimum(ns, ls, n) ==
    IF ns[n].leaf # NIL
    THEN [key |-> ls[ns[n].leaf].key, val |-> ls[ns[n].leaf].val, ok |-> TRUE]
    ELSE IF Len(ns[n].edges) > 0 THEN Minimum(ns, ls, ns[n].edges[1].node)
         ELSE [key |-> <<>>, val |-> Zero, ok |-> FALSE]

\* Node.Maximum that returns the leaf of the first node that has one
RECURSIVE Maximum_leafFirst(_, _, _)
Maximum_leafFirst(ns, ls, n) ==
    IF ns[n].leaf # NIL
    THEN [key |-> ls[ns[n].leaf].key, val |-> ls[ns[n].leaf].val, ok |-> TRUE]
    ELSE IF Len(ns[n].edges) > 0
         THEN Maximum_leafFirst(ns, ls, ns[n].edges[Len(ns[n].edges)].node)
         ELSE [key |-> <<>>, val |-> Zero, ok |-> FALSE]

\* Node.Maximum: [key, val, ok]
RECURSIVE Maximum(_, _, _)
Maximum(ns, ls, n) ==
    IF Len(ns[n].edges) > 0 THEN Maximum(ns, ls, ns[n].edges[Len(ns[n].edges)].node)
    ELSE IF ns[n].leaf # NIL
         THEN [key |-> ls[ns[n].leaf].key, val |-> ls[ns[n].leaf].val, ok |-> TRUE]
         ELSE [key |-> <<>>, val |-> Zero, ok |-> FALSE]

\* reverseRecursiveWalk: the leaf of the node, then the children from the last
\* edge to the first
RECURSIVE reverseRecursiveWalk(_, _, _)
RECURSIVE reverseWalkEdges(_, _, _, _)
reverseRecursiveWalk(ns, ls, n) ==
    (IF ns[n].leaf # NIL THEN <<ls[ns[n].leaf]>> ELSE <<>>)
        \o reverseWalkEdges(ns, ls, ns[n].edges, Len(ns[n].edges))
reverseWalkEdges(ns, ls, es, i) ==
    IF i < 1 THEN <<>>
    ELSE reverseRecursiveWalk(ns, ls, es[i].node) \o reverseWalkEdges(ns, ls, es, i - 1)

\* Node.WalkBackwards
WalkBackwards(ns, ls, n) == reverseRecursiveWalk(ns, ls, n)

----------------------------------------------------------------------------
(* iter.go: an Iterator is [node, stack, stackNil]; stack is a sequence of *)
(* edge slices, stackNil tells the nil slice from the empty one.           *)

\* edge{node: n}
NodeEdge(n) == [label |-> Zero, node |-> n]

\* Node.Iterator
NewIterator(n) == [node |-> n, stack |-> <<>>, stackNil |-> TRUE]

\* Iterator.SeekPrefixWatch: [it, watch]
RECURSIVE SeekPrefixWatchLoop(_, _, _, _)
SeekPrefixWatchLoop(ns, n, search, watch) ==
    IF Len(search) = 0 THEN [node |-> n, watch |-> watch]
    ELSE LET c == getEdge(ns[n].edges, search[1]).node
         IN  IF c = NIL THEN [node |-> NIL, watch |-> watch]
             ELSE IF keyHasPrefix(search, ns[c].prefix)
                  THEN SeekPrefixWatchLoop(ns, c, Drop(search, Len(ns[c].prefix)), NodeCh(c))
                  ELSE IF keyHasPrefix(ns[c].prefix, search)
                       THEN [node |-> c, watch |-> NodeCh(c)]
                       ELSE [node |-> NIL, watch |-> NodeCh(c)]

SeekPrefixWatch(ns, it, prefix) ==
    LET r == SeekPrefixWatchLoop(ns, it.node, prefix, NodeCh(it.node))
    IN  [it |-> [node |-> r.node, stack |-> <<>>, stackNil |-> TRUE], watch |-> r.watch]

\* Iterator.SeekPrefix
SeekPrefix(ns, it, prefix) == SeekPrefixWatch(ns, it, prefix).it

\* Iterator.recurseMin that leaves the other edges of the nodes it passes off the stack
RECURSIVE recurseMin_noStack(_, _, _)
recurseMin_noStack(ns, stack, n) ==
    IF ns[n].leaf # NIL THEN [stack |-> stack, n |-> n]
    ELSE IF Len(ns[n].edges) > 0 THEN recurseMin_noStack(ns, stack, ns[n].edges[1].node)
    ELSE [stack |-> stack, n |-> NIL]

\* Iterator.recurseMin with the stack it appends to: [stack, n]
RECURSIVE recurseMin(_, _, _)
recurseMin(ns, stack, n) ==
    IF ns[n].leaf # NIL THEN [stack |-> stack, n |-> n]
    ELSE LET es == ns[n].edges
             st == IF Len(es) > 1 THEN Append(stack, Drop(es, 1)) ELSE stack
         IN  IF Len(es) > 0 THEN recurseMin(ns, st, es[1].node)
             ELSE [stack |-> st, n |-> NIL]

\* the compare of a node prefix with the same-length prefix of the search key
prefixCmp(prefix, search) ==
    IF Len(prefix) < Len(search)
    THEN keyCompare(prefix, Take(search, Len(prefix)))
    ELSE keyCompare(prefix, search)

\* Iterator.SeekLowerBound, the loop: the stack when it returns
RECURSIVE SeekLowerBoundLoop(_, _, _, _, _, _)
SeekLowerBoundLoop(ns, ls, n, search, key, stack) ==
    LET found(st, m) == Append(st, <<NodeEdge(m)>>)
        findMin(r) == IF r.n # NIL THEN found(r.stack, r.n) ELSE r.stack
        es == ns[n].edges
        cmp == prefixCmp(ns[n].prefix, search)
        rest == Drop(search, Len(ns[n].prefix))
        descend(lb) ==
            IF ~lb.ok THEN stack
            ELSE SeekLowerBoundLoop(ns, ls, es[lb.idx + 1].node, rest, key,
                                    IF lb.idx + 1 < Len(es)
                                    THEN Append(stack, Drop(es, lb.idx + 1))
                                    ELSE stack)
    IN  IF cmp > 0 THEN findMin(recurseMin(ns, stack, n))
        ELSE IF cmp < 0 THEN stack
        ELSE IF ns[n].leaf # NIL /\ keyEqual(ls[ns[n].leaf].key, key) THEN found(stack, n)
        ELSE IF Len(rest) = 0 THEN findMin(recurseMin(ns, stack, n))
        ELSE descend(findLowerBoundEdge(es, rest[1]))

SeekLowerBound(ns, ls, it, key) ==
    [node |-> NIL, stack |-> SeekLowerBoundLoop(ns, ls, it.node, key, key, <<>>),
     stackNil |-> FALSE]

\* Iterator.Next that leaves the edges of the node it takes off the stack
RECURSIVE IterNextLoop_noPush(_, _)
IterNextLoop_noPush(ns, stack) ==
    IF Len(stack) = 0 THEN [stack |-> stack, leaf |-> NIL]
    ELSE LET n == Len(stack)
             last == stack[n]
             elem == last[1].node
             popped == IF Len(last) > 1 THEN [stack EXCEPT ![n] = Drop(last, 1)]
                       ELSE Take(stack, n - 1)
         IN  IF ns[elem].leaf # NIL THEN [stack |-> popped, leaf |-> ns[elem].leaf]
             ELSE IterNextLoop_noPush(ns, IF Len(ns[elem].edges) > 0
                                          THEN Append(popped, ns[elem].edges) ELSE popped)

\* Iterator.Next, the loop: [stack, leaf], leaf = NIL when the stack ran out
RECURSIVE IterNextLoop(_, _)
IterNextLoop(ns, stack) ==
    IF Len(stack) = 0 THEN [stack |-> stack, leaf |-> NIL]
    ELSE LET n == Len(stack)
             last == stack[n]
             elem == last[1].node
             popped == IF Len(last) > 1 THEN [stack EXCEPT ![n] = Drop(last, 1)]
                       ELSE Take(stack, n - 1)
             pushed == IF Len(ns[elem].edges) > 0 THEN Append(popped, ns[elem].edges)
                       ELSE popped
         IN  IF ns[elem].leaf # NIL THEN [stack |-> pushed, leaf |-> ns[elem].leaf]
             ELSE IterNextLoop(ns, pushed)

\* Iterator.Next that initialises the stack whenever the stack is empty
IterNext_restart(ns, ls, it) ==
    LET init == Len(it.stack) = 0 /\ it.node # NIL
        out(r) == [it |-> [node |-> it.node, stack |-> r.stack,
                           stackNil |-> it.stackNil /\ ~init],
                   key |-> IF r.leaf # NIL THEN ls[r.leaf].key ELSE <<>>,
                   val |-> IF r.leaf # NIL THEN ls[r.leaf].val ELSE Zero,
                   ok |-> r.leaf # NIL]
    IN  out(IterNextLoop(ns, IF init THEN << <<NodeEdge(it.node)>> >> ELSE it.stack))

\* Iterator.Next: [it, key, val, ok]
IterNext(ns, ls, it) ==
    LET init == it.stackNil /\ it.node # NIL
        out(r) == [it |-> [node |-> it.node, stack |-> r.stack,
                           stackNil |-> it.stackNil /\ ~init],
                   key |-> IF r.leaf # NIL THEN ls[r.leaf].key ELSE <<>>,
                   val |-> IF r.leaf # NIL THEN ls[r.leaf].val ELSE Zero,
                   ok |-> r.leaf # NIL]
    IN  out(IterNextLoop(ns, IF init THEN << <<NodeEdge(it.node)>> >> ELSE it.stack))

\* for k, v, ok := it.Next(); ok; k, v, ok = it.Next(): the [key, val] returned
RECURSIVE IterateAll(_, _, _)
IterateAll(ns, ls, it) ==
    LET more(r) == IF r.ok
                   THEN <<[key |-> r.key, val |-> r.val]>> \o IterateAll(ns, ls, r.it)
                   ELSE <<>>
    IN  more(IterNext(ns, ls, it))

----------------------------------------------------------------------------
(* reverse_iter.go: a ReverseIterator is an Iterator with the set          *)
(* expandedParents.                                                        *)

\* Node.ReverseIterator
NewReverseIterator(n) == [i |-> NewIterator(n), expandedParents |-> {}]

\* ReverseIterator.SeekReverseLowerBound, the loop: [stack, expandedParents]
RECURSIVE SeekReverseLowerBoundLoop(_, _, _, _, _, _, _)
SeekReverseLowerBoundLoop(ns, ls, n, search, key, stack, exp) ==
    LET es == ns[n].edges
        cmp == prefixCmp(ns[n].prefix, search)
        rest == Drop(search, Len(ns[n].prefix))
        found == [stack |-> Append(stack, <<NodeEdge(n)>>), expandedParents |-> exp \cup {n}]
        \* the rest of the loop body, with the stack and the set as they are
        \* after the leaf of n was looked at
        descend(st, ex) ==
            IF Len(rest) = 0 THEN [stack |-> st, expandedParents |-> ex]
            ELSE LET lb == findLowerBoundEdge(es, rest[1])
                     st1 == IF lb.idx > 0 THEN Append(st, Take(es, lb.idx)) ELSE st
                 IN  IF ~lb.ok THEN [stack |-> st1, expandedParents |-> ex]
                     ELSE SeekReverseLowerBoundLoop(ns, ls, es[lb.idx + 1].node, rest, key,
                                                    st1, ex)
    IN  IF cmp < 0 THEN [stack |-> Append(stack, <<NodeEdge(n)>>), expandedParents |-> exp]
        ELSE IF cmp > 0 THEN [stack |-> stack, expandedParents |-> exp]
        ELSE IF ns[n].leaf # NIL
             THEN IF keyEqual(ls[ns[n].leaf].key, key) THEN found
                  ELSE IF Len(es) = 0 THEN found
                  ELSE descend(found.stack, found.expandedParents)
             ELSE descend(stack, exp)

SeekReverseLowerBound(ns, ls, ri, key) ==
    LET set(r) == [i |-> [node |-> NIL, stack |-> r.stack, stackNil |-> FALSE],
                   expandedParents |-> r.expandedParents]
    IN  set(SeekReverseLowerBoundLoop(ns, ls, ri.i.node, key, key, <<>>, ri.expandedParents))

\* ReverseIterator.Previous that returns the leaf of a node before it walks the
\* children of the node
RECURSIVE PreviousLoop_leafFirst(_, _, _)
PreviousLoop_leafFirst(ns, stack, exp) ==
    IF Len(stack) = 0 THEN [stack |-> stack, expandedParents |-> exp, leaf |-> NIL]
    ELSE LET n == Len(stack)
             last == stack[n]
             m == Len(last)
             elem == last[m].node
             popped == IF m > 1 THEN [stack EXCEPT ![n] = Take(last, m - 1)]
                       ELSE Take(stack, n - 1)
             pushed == IF Len(ns[elem].edges) > 0 /\ elem \notin exp
                       THEN Append(popped, ns[elem].edges) ELSE popped
         IN  IF ns[elem].leaf # NIL
             THEN [stack |-> pushed, expandedParents |-> exp \ {elem}, leaf |-> ns[elem].leaf]
             ELSE PreviousLoop_leafFirst(ns, pushed, exp \ {elem})

\* ReverseIterator.Previous, the loop: [stack, expandedParents, leaf]
RECURSIVE PreviousLoop(_, _, _)
PreviousLoop(ns, stack, exp) ==
    IF Len(stack) = 0 THEN [stack |-> stack, expandedParents |-> exp, leaf |-> NIL]
    ELSE LET n == Len(stack)
             last == stack[n]
             m == Len(last)
             elem == last[m].node
             alreadyExpanded == elem \in exp
             popped == IF m > 1 THEN [stack EXCEPT ![n] = Take(last, m - 1)]
                       ELSE Take(stack, n - 1)
         IN  IF Len(ns[elem].edges) > 0 /\ ~alreadyExpanded
             THEN PreviousLoop(ns, Append(stack, ns[elem].edges), exp \cup {elem})
             ELSE IF ns[elem].leaf # NIL
                  THEN [stack |-> popped, expandedParents |-> exp \ {elem},
                        leaf |-> ns[elem].leaf]
                  ELSE PreviousLoop(ns, popped, exp \ {elem})

\* ReverseIterator.Previous: [ri, key, val, ok]
Previous(ns, ls, ri) ==
    LET init == ri.i.stackNil /\ ri.i.node # NIL
        out(r) == [ri |-> [i |-> [node |-> ri.i.node, stack |-> r.stack,
                                  stackNil |-> ri.i.stackNil /\ ~init],
                           expandedParents |-> r.expandedParents],
                   key |-> IF r.leaf # NIL THEN ls[r.leaf].key ELSE <<>>,
                   val |-> IF r.leaf # NIL THEN ls[r.leaf].val ELSE Zero,
                   ok |-> r.leaf # NIL]
    IN  out(PreviousLoop(ns, IF init THEN << <<NodeEdge(ri.i.node)>> >> ELSE ri.i.stack,
                         ri.expandedParents))

\* for k, v, ok := ri.Previous(); ok; k, v, ok = ri.Previous(): the [key, val] returned
RECURSIVE PreviousAll(_, _, _)
PreviousAll(ns, ls, ri) ==
    LET more(r) == IF r.ok
                   THEN <<[key |-> r.key, val |-> r.val]>> \o PreviousAll(ns, ls, r.ri)
                   ELSE <<>>
    IN  more(Previous(ns, ls, ri))

\* it.Next() called times times, whatever it returns: the [key, ok] returned
RECURSIVE NextTimes(_, _, _, _)
NextTimes(ns, ls, it, times) ==
    LET more(r) == <<[key |-> r.key, ok |-> r.ok]>> \o NextTimes(ns, ls, r.it, times - 1)
    IN  IF times = 0 THEN <<>> ELSE more(IterNext(ns, ls, it))

\* ri.Previous() called times times, whatever it returns: the [key, ok] returned
RECURSIVE PreviousTimes(_, _, _, _)
PreviousTimes(ns, ls, ri, times) ==
    LET more(r) == <<[key |-> r.key, ok |-> r.ok]>> \o PreviousTimes(ns, ls, r.ri, times - 1)
    IN  IF times = 0 THEN <<>> ELSE more(Previous(ns, ls, ri))

----------------------------------------------------------------------------
(* path_iter.go: a PathIterator is [node, path].                           *)

\* Node.PathIterator
NewPathIterator(n, path) == [node |-> n, path |-> path]

\* PathIterator.iterate that steps into the child also when the prefix of the
\* child does not match the path
iterate_anyChild(ns, i) ==
    IF Len(i.path) = 0 THEN [i EXCEPT !.node = NIL]
    ELSE LET c == getEdge(ns[i.node].edges, i.path[1]).node
         IN  IF c = NIL THEN [i EXCEPT !.node = NIL]
             ELSE IF keyHasPrefix(i.path, ns[c].prefix)
                  THEN [node |-> c, path |-> Drop(i.path, Len(ns[c].prefix))]
                  ELSE [node |-> c, path |-> <<>>]

\* PathIterator.iterate
iterate(ns, i) ==
    IF Len(i.path) = 0 THEN [i EXCEPT !.node = NIL]
    ELSE LET c == getEdge(ns[i.node].edges, i.path[1]).node
         IN  IF c = NIL THEN [i EXCEPT !.node = NIL]
             ELSE IF keyHasPrefix(i.path, ns[c].prefix)
                  THEN [node |-> c, path |-> Drop(i.path, Len(ns[c].prefix))]
                  ELSE [i EXCEPT !.node = NIL]

\* PathIterator.Next, the loop: [it, leaf], leaf = NIL when the path ran out
RECURSIVE PathNextLoop(_, _, _)
PathNextLoop(ns, i, leaf) ==
    IF leaf = NIL /\ i.node # NIL
    THEN PathNextLoop(ns, iterate(ns, i), ns[i.node].leaf)
    ELSE [it |-> i, leaf |-> leaf]

\* PathIterator.Next: [it, key, val, ok]
PathNext(ns, ls, i) ==
    LET out(r) == [it |-> r.it,
                   key |-> IF r.leaf # NIL THEN ls[r.leaf].key ELSE <<>>,
                   val |-> IF r.leaf # NIL THEN ls[r.leaf].val ELSE Zero,
                   ok |-> r.leaf # NIL]
    IN  out(PathNextLoop(ns, i, NIL))

\* Node.WalkPath: for path, val, ok := i.Next(); ok; path, val, ok = i.Next()
RECURSIVE WalkPathLoop(_, _, _)
WalkPathLoop(ns, ls, i) ==
    LET more(r) == IF r.ok
                   THEN <<[key |-> r.key, val |-> r.val]>> \o WalkPathLoop(ns, ls, r.it)
                   ELSE <<>>
    IN  more(PathNext(ns, ls, i))

WalkPath(ns, ls, n, path) == WalkPathLoop(ns, ls, NewPathIterator(n, path))

----------------------------------------------------------------------------
(* What an observer of the program knows: a reference key->value map, the  *)
(* nodes reachable from a root, and the record of the calls made.          *)

NoVal == Zero        \* the reference map holds no value for the key

\* the nodes reachable from node n, with the path (concatenated prefixes) of each
RECURSIVE NodePaths(_, _, _)
NodePaths(ns, n, path) ==
    LET p == path \o ns[n].prefix
    IN  {[node |-> n, path |-> p]}
            \cup UNION {NodePaths(ns, ns[n].edges[i].node, p) : i \in 1..Len(ns[n].edges)}

Reach(ns, root) == {e.node : e \in NodePaths(ns, root, <<>>)}
ReachLeaves(ns, root) == {ns[n].leaf : n \in Reach(ns, root)} \ {NIL}

\* the channels of the nodes and leaves at or under prefix p in the tree of root
ChannelsUnder(ns, root, p) ==
    LET under == {e.node : e \in {f \in NodePaths(ns, root, <<>>) : keyHasPrefix(f.path, p)}}
    IN  {NodeCh(n) : n \in under}
            \cup {LeafCh(ns[n].leaf) : n \in {m \in under : ns[m].leaf # NIL}}

\* the reference pointer diff: channels of the nodes and leaves of the tree of
\* snap that are not, by identity, in the tree of root
PointerDiff(ns, snap, root) ==
    {NodeCh(n) : n \in Reach(ns, snap) \ Reach(ns, root)}
        \cup {LeafCh(l) : l \in ReachLeaves(ns, snap) \ ReachLeaves(ns, root)}

\* p ends inside the compressed prefix of a node of the tree of root: the path
\* to the node is a proper prefix of p and p is a proper prefix of the path
\* through the node
EndsInsidePrefix(ns, root, p) ==
    \E e \in NodePaths(ns, root, <<>>) :
        /\ keyHasPrefix(e.path, p)
        /\ Len(e.path) > Len(p)
        /\ Len(e.path) - Len(ns[e.node].prefix) < Len(p)

\* the shape of the tree of node n: the prefix, the leaf (key and value) and
\* the labelled edges of every node, without the identities of the nodes
RECURSIVE Shape(_, _, _)
Shape(ns, ls, n) ==
    [prefix |-> ns[n].prefix,
     leaf |-> IF ns[n].leaf # NIL THEN <<ls[ns[n].leaf]>> ELSE <<>>,
     edges |-> [i \in 1..Len(ns[n].edges) |->
                   [label |-> ns[n].edges[i].label,
                    node |-> Shape(ns, ls, ns[n].edges[i].node)]]]

\* what a reader of a tree handle sees
Observe(ns, ls, tree) ==
    [get |-> [k \in Keys |-> Get(ns, ls, tree.root, k)],
     len |-> tree.size,
     walk |-> Walk(ns, ls, tree.root)]

\* the record kept for a tree handle when it is produced
TreeRecord(ns, ls, tree, ref, insOnly) ==
    [ref |-> ref, insOnly |-> insOnly, obs |-> Observe(ns, ls, tree)]

\* the record kept for a transaction opened on tree handle tr
NewHist(tr) ==
    [base |-> tr,
     ref |-> thist[tr].ref,
     insOnly |-> thist[tr].insOnly,
     watch |-> [k \in Keys |-> GetWatch(nodes, leaves, tr.root, k).watch],
     seek |-> [p \in Keys |-> SeekPrefixWatch(nodes, NewIterator(tr.root), p).watch],
     nops |-> 0, inserted |-> {}, deleted |-> {}, found |-> {},
     usedDeletePrefix |-> FALSE, mustFire |-> {}, trackedAll |-> TRUE,
     committed |-> FALSE, clean |-> FALSE,
     own |-> {}, start |-> tr.root]

\* the record after a mutating call made with tracking on or off
Mutated(h, track) ==
    [h EXCEPT !.nops = @ + 1, !.clean = FALSE, !.committed = FALSE,
              !.trackedAll = @ /\ track]

\* the nodes a call allocated: those of the heap ns1 after it that the heap ns
\* before it did not hold
Allocated(ns, ns1) == (Len(ns) + 1)..Len(ns1)

\* the nodes a call changed in place: those of the heap ns before it that are
\* not the same in the heap ns1 after it
Wrote(ns, ns1) == {n \in 1..Len(ns) : ns1[n] # ns[n]}

\* what is recorded of a call op of transaction x that ended in outcome o of
\* TxnNotify: whether Notify ran to its end, in which mode, what it closed, and
\* whether it was a repeated Notify (none of the transaction's calls since the
\* last one was a mutation)
NotifyCall(op, x, o) ==
    [op |-> op, x |-> x, ran |-> o.ran,
     mode |-> IF txns[x].trackOverflow THEN "slow" ELSE "fast",
     fired |-> o.closed \ closed,
     again |-> hist[x].clean]

\* the records of the tree handles once a transaction with record h returned tr
Produced(tr, h) ==
    [u \in trees \cup {tr} |->
        IF u \in trees THEN thist[u]
        ELSE TreeRecord(nodes, leaves, tr, h.ref, h.insOnly)]


----------------------------------------------------------------------------
(* The state machine                                                       *)

\* New(opts...): [nodes, tree]
New(cache, limit) ==
    [nodes |-> <<[prefix |-> <<>>, leaf |-> NIL, edges |-> <<>>]>>,
     tree |-> [cacheProvider |-> cache, channelLimit |-> limit, root |-> 1, size |-> 0]]

RECURSIVE InsertAll(_, _, _)
InsertAll(M, ks, i) ==
    IF i > Len(ks) THEN M ELSE InsertAll(TxnInsert(M, ks[i], 1).M, ks, i + 1)

\* The program starts with one tree handle: the tree that
\* txn := New(opts).Txn(); txn.Insert(k, 1) for each k of ks; txn.Commit() returns.
InitFrom(caches, limits, seqs) ==
    \E cache \in caches, limit \in limits, ks \in seqs :
        \E M \in {InsertAll([nodes |-> New(cache, limit).nodes, leaves |-> <<>>,
                              t |-> TreeTxn(New(cache, limit).tree)], ks, 1)} :
        \E c \in {TxnCommitOnly(M.t)} :
            /\ nodes = M.nodes
            /\ leaves = M.leaves
            /\ trees = {c.tree}
            /\ txns = <<>>
            /\ closed = {}
            /\ panicked = {}
            /\ hist = <<>>
            /\ lastCall = [op |-> "New"]
            /\ calls = 0
            /\ thist = [tr \in {c.tree} |->
                           TreeRecord(M.nodes, M.leaves, c.tree,
                                      [k \in Keys |-> IF \E j \in 1..Len(ks) : ks[j] = k
                                                      THEN 1 ELSE NoVal],
                                      TRUE)]

\* txn := tr.Txn()
Txn(tr) ==
    /\ panicked = {}
    /\ txns' = Append(txns, TreeTxn(tr))
    /\ hist' = Append(hist, NewHist(tr))
    /\ lastCall' = [op |-> "Txn", x |-> Len(txns) + 1]
    /\ UNCHANGED <<nodes, leaves, trees, closed, panicked, thist, calls>>

\* txns[x].TrackMutate(b), called before the first mutation made through txns[x]
TrackMutate(x, b) ==
    /\ panicked = {}
    /\ hist[x].nops = 0
    /\ txns[x].trackMutate # b
    /\ txns' = [txns EXCEPT ![x].trackMutate = b]
    /\ lastCall' = [op |-> "TrackMutate", x |-> x]
    /\ UNCHANGED <<nodes, leaves, trees, closed, panicked, hist, thist, calls>>

\* txns[x].Clone()
Clone(x) ==
    /\ panicked = {}
    /\ LET c == TxnClone(txns[x])
       IN  /\ txns' = Append([txns EXCEPT ![x] = c.t], c.txn)
           /\ hist' = Append([hist EXCEPT ![x].own = {}],
                              [hist[x] EXCEPT !.nops = 0,
                                       !.own = {}, !.start = txns[x].root,
                                       !.trackedAll = (hist[x].inserted = {} /\ hist[x].deleted = {}
                                                       /\ ~hist[x].usedDeletePrefix),
                                       !.mustFire = {}, !.clean = FALSE,
                                       !.committed = FALSE])
    /\ lastCall' = [op |-> "Clone", x |-> x]
    /\ UNCHANGED <<nodes, leaves, trees, closed, panicked, thist, calls>>

\* txns[x].Insert(k, v)
Insert(x, k, v) ==
    /\ panicked = {}
    /\ calls' = calls + 1
    /\ \E r \in {TxnInsert([nodes |-> nodes, leaves |-> leaves, t |-> txns[x]], k, v)} :
           /\ nodes' = r.M.nodes
           /\ leaves' = r.M.leaves
           /\ txns' = [txns EXCEPT ![x] = r.M.t]
           /\ hist' = [hist EXCEPT ![x] =
                  [Mutated(@, txns[x].trackMutate) EXCEPT
                      !.ref = IF k \in Keys THEN [@ EXCEPT ![k] = v] ELSE @,
                      !.inserted = @ \cup {k},
                      !.own = @ \cup Allocated(nodes, r.M.nodes)]]
           /\ lastCall' = [op |-> "Insert", x |-> x, key |-> k, val |-> r.oldVal,
                       ok |-> r.didUpdate,
                       was |-> [shape |-> Shape(nodes, leaves, txns[x].root),
                                size |-> txns[x].size],
                       wrote |-> Wrote(nodes, r.M.nodes)]
    /\ UNCHANGED <<trees, closed, panicked, thist>>

\* txns[x].Delete(k)
Delete(x, k) ==
    /\ panicked = {}
    /\ calls' = calls + 1
    /\ \E r \in {TxnDelete([nodes |-> nodes, leaves |-> leaves, t |-> txns[x]], k)} :
           /\ nodes' = r.M.nodes
           /\ leaves' = r.M.leaves
           /\ txns' = [txns EXCEPT ![x] = r.M.t]
           /\ hist' = [hist EXCEPT ![x] =
                  [Mutated(@, txns[x].trackMutate) EXCEPT
                      !.ref[k] = NoVal, !.deleted = @ \cup {k}, !.insOnly = FALSE,
                      !.found = IF r.ok THEN @ \cup {k} ELSE @,
                      !.own = @ \cup Allocated(nodes, r.M.nodes)]]
           /\ lastCall' = [op |-> "Delete", x |-> x, key |-> k, val |-> r.val, ok |-> r.ok,
                       undo |-> IF lastCall.op = "Insert" /\ lastCall.x = x
                                   /\ lastCall.key = k /\ ~lastCall.ok
                                THEN <<lastCall.was>> ELSE <<>>,
                       wrote |-> Wrote(nodes, r.M.nodes)]
    /\ UNCHANGED <<trees, closed, panicked, thist>>

\* txns[x].DeletePrefix(p)
DeletePrefix(x, p) ==
    /\ panicked = {}
    /\ calls' = calls + 1
    /\ \E r \in {TxnDeletePrefix([nodes |-> nodes, leaves |-> leaves, t |-> txns[x]], p)} :
           /\ nodes' = r.M.nodes
           /\ leaves' = r.M.leaves
           /\ txns' = [txns EXCEPT ![x] = r.M.t]
           /\ hist' = [hist EXCEPT ![x] =
                  [Mutated(@, txns[x].trackMutate) EXCEPT
                      !.ref = [k \in Keys |-> IF keyHasPrefix(k, p) THEN NoVal ELSE @[k]],
                      !.usedDeletePrefix = TRUE, !.insOnly = FALSE,
                      !.mustFire = IF txns[x].trackMutate
                                   THEN @ \cup (ChannelsUnder(nodes, txns[x].root, p)
                                                  \cap ChannelsUnder(nodes, hist[x].base.root, <<>>))
                                   ELSE @,
                      !.own = @ \cup Allocated(nodes, r.M.nodes)]]
           /\ lastCall' = [op |-> "DeletePrefix", x |-> x, key |-> p, ok |-> r.ok,
                       lowered |-> txns[x].size - r.M.t.size,
                       removed |-> Cardinality({k \in Keys : keyHasPrefix(k, p)
                                                   /\ hist[x].ref[k] # NoVal}),
                       before |-> [k \in Keys |-> Get(nodes, leaves, txns[x].root, k)],
                       inside |-> EndsInsidePrefix(nodes, txns[x].root, p),
                       wrote |-> Wrote(nodes, r.M.nodes)]
    /\ UNCHANGED <<trees, closed, panicked, thist>>

\* CommitOnly that goes on to Notify, as Commit does
CommitOnly_notifying(x) ==
    /\ panicked = {}
    /\ LET c == TxnCommitOnly(txns[x])
       IN  \E o \in TxnNotify(nodes, c.t, closed) :
               /\ Cardinality(trees \cup {c.tree}) <= MaxTrees
               /\ txns' = [txns EXCEPT ![x] = o.t]
               /\ closed' = o.closed
               /\ panicked' = o.panic
               /\ trees' = trees \cup {c.tree}
               /\ hist' = [hist EXCEPT ![x].committed = TRUE, ![x].own = {}]
               /\ thist' = Produced(c.tree, hist[x])
               /\ lastCall' = [op |-> "CommitOnly", x |-> x, tree |-> c.tree]
    /\ UNCHANGED <<nodes, leaves, calls>>

\* txns[x].CommitOnly()
CommitOnly(x) ==
    /\ panicked = {}
    /\ LET c == TxnCommitOnly(txns[x])
       IN  /\ Cardinality(trees \cup {c.tree}) <= MaxTrees
           /\ txns' = [txns EXCEPT ![x] = c.t]
           /\ trees' = trees \cup {c.tree}
           /\ hist' = [hist EXCEPT ![x].committed = TRUE, ![x].own = {}]
           /\ thist' = Produced(c.tree, hist[x])
           /\ lastCall' = [op |-> "CommitOnly", x |-> x, tree |-> c.tree]
    /\ UNCHANGED <<nodes, leaves, closed, panicked, calls>>

\* txns[x].Notify(), which "must only be done once a transaction is committed
\* via CommitOnly"
Notify(x) ==
    /\ panicked = {}
    /\ hist[x].committed
    /\ \E o \in TxnNotify(nodes, txns[x], closed) :
           /\ txns' = [txns EXCEPT ![x] = o.t]
           /\ closed' = o.closed
           /\ panicked' = o.panic
           /\ hist' = IF o.ran THEN [hist EXCEPT ![x].clean = TRUE] ELSE hist
           /\ lastCall' = NotifyCall("Notify", x, o)
    /\ UNCHANGED <<nodes, leaves, trees, thist, calls>>

\* txns[x].Commit(): CommitOnly, then Notify when tracking; a panic in Notify
\* leaves the caller without the new tree handle
Commit(x) ==
    /\ panicked = {}
    /\ LET c == TxnCommitOnly(txns[x])
       IN  \E o \in TxnNotify(nodes, c.t, closed) :
               /\ Cardinality(trees \cup {c.tree}) <= MaxTrees
               /\ txns' = [txns EXCEPT ![x] = o.t]
               /\ closed' = o.closed
               /\ panicked' = o.panic
               /\ hist' = [hist EXCEPT ![x].committed = TRUE, ![x].clean = @ \/ o.ran,
                                        ![x].own = {}]
               /\ lastCall' = NotifyCall("Commit", x, o) @@ [tree |-> c.tree]
               /\ IF o.panic = {}
                  THEN /\ trees' = trees \cup {c.tree}
                       /\ thist' = Produced(c.tree, hist[x])
                  ELSE UNCHANGED <<trees, thist>>
    /\ UNCHANGED <<nodes, leaves, calls>>

\* the program drops its reference to txns[x], the transaction it has just
\* committed (a transaction is discarded by dropping it)
Discard(x) ==
    /\ panicked = {}
    /\ lastCall.op = "Commit"
    /\ lastCall.x = x
    /\ txns' = Take(txns, x - 1) \o Drop(txns, x)
    /\ hist' = Take(hist, x - 1) \o Drop(hist, x)
    /\ lastCall' = [op |-> "Discard", x |-> x]
    /\ UNCHANGED <<nodes, leaves, trees, closed, panicked, thist, calls>>

----------------------------------------------------------------------------
(* Spec: one transaction at a time.  The program opens a transaction on    *)
(* any tree handle it holds, mutates, commits (Commit, or CommitOnly and   *)
(* Notify, in any order and any number of times), goes on mutating or      *)
(* drops the transaction and opens the next one.                           *)

Init == InitFrom(CacheProviders, ChannelLimits, InitKeySeqs)

Next ==
    \/ \E tr \in trees : txns = <<>> /\ Txn(tr)
    \/ \E x \in DOMAIN txns, b \in BOOLEAN : TrackMutate(x, b)
    \/ \E x \in DOMAIN txns, k \in Keys, v \in Vals : calls < MaxOps /\ Insert(x, k, v)
    \/ \E x \in DOMAIN txns, k \in Keys : calls < MaxOps /\ Delete(x, k)
    \/ \E x \in DOMAIN txns, p \in Keys : calls < MaxOps /\ DeletePrefix(x, p)
    \/ \E x \in DOMAIN txns : CommitOnly(x)
    \/ \E x \in DOMAIN txns : Notify(x)
    \/ \E x \in DOMAIN txns : Commit(x)
    \/ \E x \in DOMAIN txns : calls < MaxOps /\ Discard(x)

Spec == Init /\ [][Next]_vars

(* SpecDeep: one tracking transaction that keeps every signal it tracks    *)
(* (no overflow), on one tree, with one more mutation.                     *)

InitDeep == InitFrom({"MapCache"}, {64}, DeepKeySeqs)

NextDeep ==
    \/ \E tr \in trees : txns = <<>> /\ Txn(tr)
    \/ \E x \in DOMAIN txns, b \in BOOLEAN : TrackMutate(x, b)
    \/ \E x \in DOMAIN txns, k \in Keys, v \in Vals : calls < MaxDeepOps /\ Insert(x, k, v)
    \/ \E x \in DOMAIN txns, k \in Keys : calls < MaxDeepOps /\ Delete(x, k)
    \/ \E x \in DOMAIN txns, p \in Keys : calls < MaxDeepOps /\ DeletePrefix(x, p)
    \/ \E x \in DOMAIN txns : Commit(x)

SpecDeep == InitDeep /\ [][NextDeep]_vars

(* SpecClone: one transaction and its clones, each mutated and committed   *)
(* on its own, with the map cache (without a cache no node is ever written *)
(* in place).                                                              *)

MaxTxns == 2        \* the transaction opened first and its clones
MaxCloneOps == 3    \* Insert/Delete/DeletePrefix calls, all transactions together
CloneKeySeqs == {<< <<1>>, <<1, 1>> >>}

InitClone == InitFrom({"MapCache"}, {64}, CloneKeySeqs)

NextClone ==
    \/ \E tr \in trees : txns = <<>> /\ Txn(tr)
    \/ \E x \in DOMAIN txns : Len(txns) < MaxTxns /\ Clone(x)
    \/ \E x \in DOMAIN txns, k \in Keys, v \in Vals : calls < MaxCloneOps /\ Insert(x, k, v)
    \/ \E x \in DOMAIN txns, k \in Keys : calls < MaxCloneOps /\ Delete(x, k)
    \/ \E x \in DOMAIN txns, p \in Keys : calls < MaxCloneOps /\ DeletePrefix(x, p)
    \/ \E x \in DOMAIN txns : Commit(x)

SpecClone == InitClone /\ [][NextClone]_vars

(* SpecCache: the same calls made on two transactions opened on the same   *)
(* tree, txns[1] with the map cache and txns[2] with no cache, both        *)
(* tracking; the two are committed once, at the end.                       *)

MaxPairOps == 2     \* Insert/Delete/DeletePrefix calls made on each of the two

\* a := tr.Txn() with MapCache and b := tr.Txn() with NoCache, both TrackMutate(true)
PairTxn(tr) ==
    /\ txns = <<>>
    /\ txns' = <<[TreeTxn(tr) EXCEPT !.cacheProvider = "MapCache", !.trackMutate = TRUE],
                 [TreeTxn(tr) EXCEPT !.cacheProvider = "NoCache", !.trackMutate = TRUE]>>
    /\ lastCall' = [op |-> "PairTxn"]
    /\ UNCHANGED <<nodes, leaves, trees, closed, panicked, hist, thist, calls>>

\* the state after the same call was made on txns[1] (result a) and on txns[2] (result b)
PairDone(op, k, a, b) ==
    /\ nodes' = b.M.nodes
    /\ leaves' = b.M.leaves
    /\ txns' = <<a.M.t, b.M.t>>
    /\ calls' = calls + 1
    /\ lastCall' = [op |-> op, key |-> k]
    /\ UNCHANGED <<trees, closed, panicked, hist, thist>>

\* a.Insert(k, v); b.Insert(k, v)
PairInsert(k, v) ==
    /\ Len(txns) = 2 /\ lastCall.op # "PairCommit"
    /\ \E a \in {TxnInsert([nodes |-> nodes, leaves |-> leaves, t |-> txns[1]], k, v)} :
       \E b \in {TxnInsert([nodes |-> a.M.nodes, leaves |-> a.M.leaves, t |-> txns[2]], k, v)} :
           PairDone("PairInsert", k, a, b)

\* a.Delete(k); b.Delete(k)
PairDelete(k) ==
    /\ Len(txns) = 2 /\ lastCall.op # "PairCommit"
    /\ \E a \in {TxnDelete([nodes |-> nodes, leaves |-> leaves, t |-> txns[1]], k)} :
       \E b \in {TxnDelete([nodes |-> a.M.nodes, leaves |-> a.M.leaves, t |-> txns[2]], k)} :
           PairDone("PairDelete", k, a, b)

\* a.DeletePrefix(p); b.DeletePrefix(p)
PairDeletePrefix(p) ==
    /\ Len(txns) = 2 /\ lastCall.op # "PairCommit"
    /\ \E a \in {TxnDeletePrefix([nodes |-> nodes, leaves |-> leaves, t |-> txns[1]], p)} :
       \E b \in {TxnDeletePrefix([nodes |-> a.M.nodes, leaves |-> a.M.leaves, t |-> txns[2]], p)} :
           PairDone("PairDeletePrefix", p, a, b)

\* a.Commit(); b.Commit(): the two trees and what each Notify fired
PairCommit ==
    /\ Len(txns) = 2 /\ lastCall.op # "PairCommit"
    /\ \E ca \in {TxnCommitOnly(txns[1])}, cb \in {TxnCommitOnly(txns[2])} :
       \E a \in TxnNotify(nodes, ca.t, closed), b \in TxnNotify(nodes, cb.t, closed) :
           /\ txns' = <<a.t, b.t>>
           /\ closed' = a.closed \cup b.closed
           /\ panicked' = a.panic \cup b.panic
           /\ lastCall' = [op |-> "PairCommit",
                           treeMap |-> ca.tree, firedMap |-> a.closed \ closed,
                           treeNo |-> cb.tree, firedNo |-> b.closed \ closed]
    /\ UNCHANGED <<nodes, leaves, trees, hist, thist, calls>>

InitCache == InitFrom({"MapCache"}, ChannelLimits, InitKeySeqs)

NextCache ==
    \/ \E tr \in trees : PairTxn(tr)
    \/ \E k \in Keys, v \in Vals : calls < MaxPairOps /\ PairInsert(k, v)
    \/ \E k \in Keys : calls < MaxPairOps /\ PairDelete(k)
    \/ \E p \in Keys : calls < MaxPairOps /\ PairDeletePrefix(p)
    \/ PairCommit

SpecCache == InitCache /\ [][NextCache]_vars

(* SpecRead: the reads of a tree handle.  The program starts from a tree   *)
(* of up to MaxReadKeys keys or of all the keys, may commit one more       *)
(* mutation, and reads any tree handle it holds; the answer of the last    *)
(* read is in lastCall.out.                                                *)

MaxReadKeys == 2    \* keys of the starting tree, when it does not hold every key
MaxReadOps == 1     \* Insert/Delete/DeletePrefix calls after Init

\* the keys the reads are called with: the keys of the trees, and keys below,
\* between and above them
Queries == Keys \cup {<<0>>, <<1, 0>>, <<1, 1, 1>>, <<1, 2, 0>>, <<1, 2, 2>>, <<1, 3>>,
                      <<2, 1>>, <<3>>}

ReadKeySeqs ==
    {ks \in UNION {[1..n -> Keys] : n \in 0..MaxReadKeys} :
        \A i \in 1..Len(ks), j \in 1..Len(ks) : ks[i] = ks[j] => i = j}
      \cup {<< <<1, 2, 1>>, <<1, 1>>, <<>>, <<2>>, <<1>>, <<1, 2>> >>}

\* a read of tree handle tr that answered out
Read(op, tr, q, out) ==
    /\ panicked = {}
    /\ lastCall' = [op |-> op, tree |-> tr, key |-> q, out |-> out]
    /\ UNCHANGED <<nodes, leaves, trees, txns, closed, panicked, hist, thist, calls>>

\* tr.Root().LongestPrefix(q)
ReadLongestPrefix(tr, q) ==
    Read("LongestPrefix", tr, q, LongestPrefix(nodes, leaves, tr.root, q))

\* tr.Root().Walk(fn)
ReadWalk(tr) == Read("Walk", tr, <<>>, Walk(nodes, leaves, tr.root))

\* tr.Root().WalkBackwards(fn)
ReadWalkBackwards(tr) ==
    Read("WalkBackwards", tr, <<>>, WalkBackwards(nodes, leaves, tr.root))

\* tr.Root().WalkPrefix(p, fn)
ReadWalkPrefix(tr, p) == Read("WalkPrefix", tr, p, WalkPrefix(nodes, leaves, tr.root, p))

\* it := tr.Root().Iterator(); it.Next() until it returns false
ReadIterate(tr) ==
    Read("Iterate", tr, <<>>, IterateAll(nodes, leaves, NewIterator(tr.root)))

\* it := tr.Root().Iterator(); it.SeekPrefix(p); it.Next() until it returns false
ReadSeekPrefix(tr, p) ==
    Read("SeekPrefix", tr, p,
         IterateAll(nodes, leaves, SeekPrefix(nodes, NewIterator(tr.root), p)))

\* it := tr.Root().Iterator(); it.SeekLowerBound(q); it.Next() until it returns false
ReadSeekLowerBound(tr, q) ==
    Read("SeekLowerBound", tr, q,
         IterateAll(nodes, leaves, SeekLowerBound(nodes, leaves, NewIterator(tr.root), q)))

\* ri := tr.Root().ReverseIterator(); ri.SeekReverseLowerBound(q); ri.Previous()
\* until it returns false
ReadSeekReverseLowerBound(tr, q) ==
    Read("SeekReverseLowerBound", tr, q,
         PreviousAll(nodes, leaves,
                     SeekReverseLowerBound(nodes, leaves, NewReverseIterator(tr.root), q)))

InitRead == InitFrom({"MapCache"}, {64}, ReadKeySeqs)

NextRead ==
    \/ \E tr \in trees : txns = <<>> /\ Txn(tr)
    \/ \E x \in DOMAIN txns, k \in Keys, v \in Vals : calls < MaxReadOps /\ Insert(x, k, v)
    \/ \E x \in DOMAIN txns, k \in Keys : calls < MaxReadOps /\ Delete(x, k)
    \/ \E x \in DOMAIN txns, p \in Keys : calls < MaxReadOps /\ DeletePrefix(x, p)
    \/ \E x \in DOMAIN txns : Commit(x)
    \/ \E tr \in trees, q \in Queries : ReadLongestPrefix(tr, q)
    \/ \E tr \in trees : ReadWalk(tr)
    \/ \E tr \in trees : ReadWalkBackwards(tr)
    \/ \E tr \in trees, p \in Queries : ReadWalkPrefix(tr, p)
    \/ \E tr \in trees : ReadIterate(tr)
    \/ \E tr \in trees, p \in Queries : ReadSeekPrefix(tr, p)
    \/ \E tr \in trees, q \in Queries : ReadSeekLowerBound(tr, q)
    \/ \E tr \in trees, q \in Queries : ReadSeekReverseLowerBound(tr, q)

SpecRead == InitRead /\ [][NextRead]_vars

(* SpecIter: the path iterator, the extremes of a tree and the iterators   *)
(* called past their end.  The program starts from one of the trees of     *)
(* IterKeySeqs, may commit up to MaxIterOps mutations, and reads any tree  *)
(* handle it holds; the answer of the last read is in lastCall.out.        *)

MaxIterOps == 1     \* Insert/Delete/DeletePrefix calls after Init
ExtraCalls == 2     \* calls of Next/Previous beyond the number of keys of the model

\* the number of times an iterator is called
IterCalls == Cardinality(Keys) + ExtraCalls

IterKeySeqs == InitKeySeqs \cup {<< <<1, 2, 1>>, <<1, 1>>, <<>>, <<2>>, <<1>>, <<1, 2>> >>}

\* tr.Root().WalkPath(p, fn)
ReadWalkPath(tr, p) == Read("WalkPath", tr, p, WalkPath(nodes, leaves, tr.root, p))

\* tr.Root().Minimum()
ReadMinimum(tr) == Read("Minimum", tr, <<>>, Minimum(nodes, leaves, tr.root))

\* tr.Root().Maximum()
ReadMaximum(tr) == Read("Maximum", tr, <<>>, Maximum(nodes, leaves, tr.root))

\* it := tr.Root().Iterator(); it.Next() IterCalls times
ReadNextTimes(tr) ==
    Read("NextTimes", tr, <<>>, NextTimes(nodes, leaves, NewIterator(tr.root), IterCalls))

\* it := tr.Root().Iterator(); it.SeekPrefix(p); it.Next() IterCalls times
ReadSeekPrefixNextTimes(tr, p) ==
    Read("SeekPrefixNextTimes", tr, p,
         NextTimes(nodes, leaves, SeekPrefix(nodes, NewIterator(tr.root), p), IterCalls))

\* it := tr.Root().Iterator(); it.SeekLowerBound(q); it.Next() IterCalls times
ReadSeekLowerBoundNextTimes(tr, q) ==
    Read("SeekLowerBoundNextTimes", tr, q,
         NextTimes(nodes, leaves, SeekLowerBound(nodes, leaves, NewIterator(tr.root), q),
                   IterCalls))

\* ri := tr.Root().ReverseIterator(); ri.Previous() IterCalls times
ReadPreviousTimes(tr) ==
    Read("PreviousTimes", tr, <<>>,
         PreviousTimes(nodes, leaves, NewReverseIterator(tr.root), IterCalls))

\* ri := tr.Root().ReverseIterator(); ri.SeekReverseLowerBound(q); ri.Previous()
\* IterCalls times
ReadSeekReverseLowerBoundPreviousTimes(tr, q) ==
    Read("SeekReverseLowerBoundPreviousTimes", tr, q,
         PreviousTimes(nodes, leaves,
                       SeekReverseLowerBound(nodes, leaves, NewReverseIterator(tr.root), q),
                       IterCalls))

InitIter == InitFrom({"MapCache"}, {64}, IterKeySeqs)

NextIter ==
    \/ \E tr \in trees : txns = <<>> /\ Txn(tr)
    \/ \E x \in DOMAIN txns, k \in Keys, v \in Vals : calls < MaxIterOps /\ Insert(x, k, v)
    \/ \E x \in DOMAIN txns, k \in Keys : calls < MaxIterOps /\ Delete(x, k)
    \/ \E x \in DOMAIN txns, p \in Keys : calls < MaxIterOps /\ DeletePrefix(x, p)
    \/ \E x \in DOMAIN txns : Commit(x)
    \/ \E tr \in trees, p \in Queries : ReadWalkPath(tr, p)
    \/ \E tr \in trees : ReadMinimum(tr)
    \/ \E tr \in trees : ReadMaximum(tr)
    \/ \E tr \in trees : ReadNextTimes(tr)
    \/ \E tr \in trees, p \in Queries : ReadSeekPrefixNextTimes(tr, p)
    \/ \E tr \in trees, q \in Queries : ReadSeekLowerBoundNextTimes(tr, q)
    \/ \E tr \in trees : ReadPreviousTimes(tr)
    \/ \E tr \in trees, q \in Queries : ReadSeekReverseLowerBoundPreviousTimes(tr, q)

SpecIter == InitIter /\ [][NextIter]_vars

(* SpecOrder: trees built from the empty tree by Insert alone, one          *)
(* transaction after the other, each opened on any tree handle.            *)

MaxOrderOps == 6    \* Insert calls, all transactions together

OrderKeys == {<<1>>, <<1, 1>>, <<1, 2>>}

InitOrder == InitFrom({"MapCache"}, {64}, {<<>>})

NextOrder ==
    \/ \E tr \in trees : txns = <<>> /\ Txn(tr)
    \/ \E x \in DOMAIN txns, k \in OrderKeys, v \in Vals : calls < MaxOrderOps /\ Insert(x, k, v)
    \/ \E x \in DOMAIN txns : Commit(x)
    \/ \E x \in DOMAIN txns : Discard(x)

SpecOrder == InitOrder /\ [][NextOrder]_vars

(* SpecTrack: who fires signals.  One transaction and its clones, tracking *)
(* toggled at any time, every way to end a transaction (CommitOnly,        *)
(* Notify, Commit, or dropping it), and the methods of Tree that open and  *)
(* commit a transaction of their own.                                      *)

MaxTrackOps == 2    \* Insert/Delete/DeletePrefix calls of Txn and of Tree together
TrackKeys == {<<1>>, <<1, 2>>}

\* txns[x].TrackMutate(b), called after a mutation made through txns[x]
TrackMutateLate(x, b) ==
    /\ panicked = {}
    /\ hist[x].nops > 0
    /\ txns[x].trackMutate # b
    /\ txns' = [txns EXCEPT ![x].trackMutate = b]
    /\ lastCall' = [op |-> "TrackMutate", x |-> x]
    /\ UNCHANGED <<nodes, leaves, trees, closed, panicked, hist, thist, calls>>

\* the program drops its reference to txns[x] while txns[x] holds mutations
\* that no CommitOnly or Commit has returned
Abandon(x) ==
    /\ panicked = {}
    /\ hist[x].nops > 0
    /\ ~hist[x].committed
    /\ txns' = Take(txns, x - 1) \o Drop(txns, x)
    /\ hist' = Take(hist, x - 1) \o Drop(hist, x)
    /\ lastCall' = [op |-> "Abandon", x |-> x,
                    pending |-> txns[x].trackChannels, tracking |-> txns[x].trackMutate]
    /\ UNCHANGED <<nodes, leaves, trees, closed, panicked, thist, calls>>

\* the end of Tree.Insert, Tree.Delete and Tree.DeletePrefix: "return txn.Commit(), ..."
\* for the transaction M.t these methods opened and mutated
TreeCommit(op, tr, k, M, ref, insOnly) ==
    \E c \in {TxnCommitOnly(M.t)} :
    \E o \in TxnNotify(M.nodes, c.t, closed) :
        /\ Cardinality(trees \cup {c.tree}) <= MaxTrees
        /\ calls' = calls + 1
        /\ nodes' = M.nodes
        /\ leaves' = M.leaves
        /\ closed' = o.closed
        /\ panicked' = o.panic
        /\ trees' = trees \cup {c.tree}
        /\ thist' = [u \in trees \cup {c.tree} |->
                        IF u \in trees THEN thist[u]
                        ELSE TreeRecord(M.nodes, M.leaves, c.tree, ref, insOnly)]
        /\ lastCall' = [op |-> op, tr |-> tr, key |-> k, tree |-> c.tree,
                        tracking |-> c.t.trackMutate, fired |-> o.closed \ closed]
        /\ UNCHANGED <<txns, hist>>

\* tr.Insert(k, v)
TreeInsert(tr, k, v) ==
    /\ panicked = {}
    /\ \E r \in {TxnInsert([nodes |-> nodes, leaves |-> leaves, t |-> TreeTxn(tr)], k, v)} :
           TreeCommit("Tree.Insert", tr, k, r.M,
                      [thist[tr].ref EXCEPT ![k] = v], thist[tr].insOnly)

\* tr.Delete(k)
TreeDelete(tr, k) ==
    /\ panicked = {}
    /\ \E r \in {TxnDelete([nodes |-> nodes, leaves |-> leaves, t |-> TreeTxn(tr)], k)} :
           TreeCommit("Tree.Delete", tr, k, r.M,
                      [thist[tr].ref EXCEPT ![k] = NoVal], FALSE)

\* tr.DeletePrefix(p)
TreeDeletePrefix(tr, p) ==
    /\ panicked = {}
    /\ \E r \in {TxnDeletePrefix([nodes |-> nodes, leaves |-> leaves, t |-> TreeTxn(tr)], p)} :
           TreeCommit("Tree.DeletePrefix", tr, p, r.M,
                      [k \in Keys |-> IF keyHasPrefix(k, p) THEN NoVal ELSE thist[tr].ref[k]],
                      FALSE)

InitTrack == InitFrom({"MapCache"}, {64}, DeepKeySeqs)

NextTrack ==
    \/ \E tr \in trees : txns = <<>> /\ Txn(tr)
    \/ \E x \in DOMAIN txns, b \in BOOLEAN : TrackMutate(x, b)
    \/ \E x \in DOMAIN txns, b \in BOOLEAN : TrackMutateLate(x, b)
    \/ \E x \in DOMAIN txns : Len(txns) < MaxTxns /\ Clone(x)
    \/ \E x \in DOMAIN txns, k \in TrackKeys, v \in Vals : calls < MaxTrackOps /\ Insert(x, k, v)
    \/ \E x \in DOMAIN txns, k \in TrackKeys : calls < MaxTrackOps /\ Delete(x, k)
    \/ \E x \in DOMAIN txns, p \in TrackKeys : calls < MaxTrackOps /\ DeletePrefix(x, p)
    \/ \E x \in DOMAIN txns : CommitOnly(x)
    \/ \E x \in DOMAIN txns : Notify(x)
    \/ \E x \in DOMAIN txns : Commit(x)
    \/ \E x \in DOMAIN txns : Abandon(x)
    \/ \E tr \in trees, k \in TrackKeys, v \in Vals : calls < MaxTrackOps /\ TreeInsert(tr, k, v)
    \/ \E tr \in trees, k \in TrackKeys : calls < MaxTrackOps /\ TreeDelete(tr, k)
    \/ \E tr \in trees, p \in TrackKeys : calls < MaxTrackOps /\ TreeDeletePrefix(tr, p)

SpecTrack == InitTrack /\ [][NextTrack]_vars

(* SpecLinear: a linear history.  Each transaction tracks, mutates, is     *)
(* committed once with Commit, and the next transaction is opened on the  *)
(* tree that Commit returned.                                             *)

MaxLinearOps == 3   \* Insert/Delete/DeletePrefix calls, all transactions together

\* txn = tree.Txn() for the tree that txns[x].Commit() has just returned: the
\* program holds the new transaction in place of txns[x]
TxnOnCommitted(x) ==
    /\ panicked = {}
    /\ lastCall.op = "Commit"
    /\ lastCall.x = x
    /\ lastCall.tree \in trees
    /\ txns' = Take(txns, x - 1) \o <<TreeTxn(lastCall.tree)>> \o Drop(txns, x)
    /\ hist' = Take(hist, x - 1) \o <<NewHist(lastCall.tree)>> \o Drop(hist, x)
    /\ lastCall' = [op |-> "Txn", x |-> x]
    /\ UNCHANGED <<nodes, leaves, trees, closed, panicked, thist, calls>>

InitLinear == InitFrom(CacheProviders, ChannelLimits, InitKeySeqs)

NextLinear ==
    \/ \E tr \in trees : txns = <<>> /\ Txn(tr)
    \/ \E x \in DOMAIN txns : ~txns[x].trackMutate /\ TrackMutate(x, TRUE)
    \/ \E x \in DOMAIN txns, k \in Keys, v \in Vals :
           calls < MaxLinearOps /\ txns[x].trackMutate /\ ~hist[x].committed /\ Insert(x, k, v)
    \/ \E x \in DOMAIN txns, k \in Keys :
           calls < MaxLinearOps /\ txns[x].trackMutate /\ ~hist[x].committed /\ Delete(x, k)
    \/ \E x \in DOMAIN txns, p \in Keys :
           calls < MaxLinearOps /\ txns[x].trackMutate /\ ~hist[x].committed /\ DeletePrefix(x, p)
    \/ \E x \in DOMAIN txns : txns[x].trackMutate /\ ~hist[x].committed /\ Commit(x)
    \/ \E x \in DOMAIN txns : TxnOnCommitted(x)

SpecLinear == InitLinear /\ [][NextLinear]_vars

(* SpecOverflow: one tracking transaction on a tree made with               *)
(* WithChannelLimit(OverflowLimit) inserts OverflowInserts keys no two of   *)
(* which share their first element (the i-th key starts with i), and       *)
(* commits.                                                                *)

OverflowLimit == 4      \* WithChannelLimit(4)
OverflowInserts == 10   \* Insert calls of the transaction

\* the keys the i-th Insert may be called with
UnrelatedKeys(i) == {<<i>>, <<i, 1>>}

\* the trees the transaction is opened on: New() and these keys inserted
OverflowKeySeqs == {<<>>, << <<>> >>, << <<1>>, <<2>> >>, << <<1, 1>>, <<2>>, <<3, 1>> >>}

InitOverflow == InitFrom(CacheProviders, {OverflowLimit}, OverflowKeySeqs)

NextOverflow ==
    \/ \E tr \in trees : txns = <<>> /\ Txn(tr)
    \/ \E x \in DOMAIN txns : TrackMutate(x, TRUE)
    \/ \E x \in DOMAIN txns, v \in Vals : \E k \in UnrelatedKeys(calls + 1) :
           calls < OverflowInserts /\ txns[x].trackMutate /\ Insert(x, k, v)
    \/ \E x \in DOMAIN txns :
           calls = OverflowInserts /\ ~hist[x].committed /\ Commit(x)

SpecOverflow == InitOverflow /\ [][NextOverflow]_vars

----------------------------------------------------------------------------
(* Properties                                                              *)

\* what the reference map ref answers to Get(k)
RefGet(ref, k) == [val |-> ref[k], ok |-> ref[k] # NoVal]
RefSize(ref) == Cardinality({k \in Keys : ref[k] # NoVal})

\* the last call was a Commit or a Notify (it may have ended in a panic)
Notified == lastCall.op \in {"Commit", "Notify"}
\* ... and it returned, having run Notify with tracking on
NotifyRan == Notified /\ lastCall.ran

\* C1: inside a transaction and on every committed tree, Get(k) answers what
\* the reference map that applied the same Insert/Delete/DeletePrefix calls
\* answers; after inserts only, the size is the number of keys of the map.
C1_GetMatchesReference ==
    /\ \A x \in DOMAIN txns :
          /\ \A k \in Keys : Get(nodes, leaves, txns[x].root, k) = RefGet(hist[x].ref, k)
          /\ hist[x].insOnly => txns[x].size = RefSize(hist[x].ref)
    /\ \A tr \in trees :
          /\ \A k \in Keys : Get(nodes, leaves, tr.root, k) = RefGet(thist[tr].ref, k)
          /\ thist[tr].insOnly => tr.size = RefSize(thist[tr].ref)

\* a committed tree whose transaction inserted a key and removed another
C1_Witness ==
    \E tr \in trees :
        /\ ~thist[tr].insOnly
        /\ \E k \in Keys : Get(nodes, leaves, tr.root, k) = [val |-> 2, ok |-> TRUE]
        /\ \E k \in Keys : Get(nodes, leaves, tr.root, k) = [val |-> 1, ok |-> TRUE]

\* C2: every tree handle the program holds still reads (Get of every key, Len,
\* ordered walk) what it read when it was produced, whatever transactions have
\* done since.
C2_TreeHandleKeepsReads ==
    \A tr \in trees : Observe(nodes, leaves, tr) = thist[tr].obs

\* a transaction opened on a tree made two mutations and committed a tree that
\* reads differently from the one it was opened on
C2_Witness ==
    /\ lastCall.op = "Commit"
    /\ lastCall.tree \in trees
    /\ hist[lastCall.x].nops = 2
    /\ thist[lastCall.tree].obs.get # thist[hist[lastCall.x].base].obs.get

\* C3: the size of every transaction and of every committed tree is the number
\* of reachable nodes that carry a leaf, and DeletePrefix lowers the size by
\* the number of keys it removed.
C3_SizeIsLeafCount ==
    /\ \A x \in DOMAIN txns : txns[x].size = Cardinality(ReachLeaves(nodes, txns[x].root))
    /\ \A tr \in trees : tr.size = Cardinality(ReachLeaves(nodes, tr.root))
    /\ lastCall.op = "DeletePrefix" => lastCall.lowered = lastCall.removed

\* C4: once a transaction that tracked all its mutations has committed and run
\* Notify, the signal GetWatch(k) returned on the tree it was opened on is
\* fired, for every key k the transaction inserted or updated.
C4_WatchFiresOnInsert ==
    (NotifyRan /\ hist[lastCall.x].trackedAll)
        => \A k \in hist[lastCall.x].inserted : hist[lastCall.x].watch[k] \in closed

\* C5: once a transaction that tracked all its mutations has committed and run
\* Notify, the leaf signal GetWatch(k) returned on the tree it was opened on is
\* fired, for every key k of that tree that a Delete(k) of the transaction
\* found and removed.
C5_WatchFiresOnDelete ==
    (NotifyRan /\ hist[lastCall.x].trackedAll)
        => \A k \in hist[lastCall.x].found :
               thist[hist[lastCall.x].base].ref[k] # NoVal
                   => hist[lastCall.x].watch[k] \in closed

\* C6: once a transaction that tracked all its mutations has committed and run
\* Notify, every node signal and leaf signal of the tree it was opened on that
\* was in a subtree removed by one of its DeletePrefix calls is fired.
C6_DeletePrefixFiresSubtree ==
    (NotifyRan /\ hist[lastCall.x].trackedAll)
        => hist[lastCall.x].mustFire \subseteq closed

\* C7: no close() is ever applied to a signal that is already fired.
C7_NoSignalFiredTwice == panicked = {}

\* C8: a Commit or Notify of a transaction that made only Insert and Delete
\* calls does not fire the leaf signal of a key of the tree it was opened on
\* that none of these calls named.
C8_UnrelatedLeafNotFired ==
    (Notified /\ ~hist[lastCall.x].usedDeletePrefix)
        => \A k \in Keys \ (hist[lastCall.x].inserted \cup hist[lastCall.x].deleted) :
               thist[hist[lastCall.x].base].ref[k] # NoVal
                   => hist[lastCall.x].watch[k] \notin lastCall.fired

\* a slow-mode Commit that fired signals after an Insert below or beside a key
\* that it left alone
C8_Witness ==
    /\ lastCall.op = "Commit"
    /\ lastCall.ran
    /\ lastCall.mode = "slow"
    /\ lastCall.fired # {}
    /\ ~hist[lastCall.x].usedDeletePrefix
    /\ hist[lastCall.x].inserted # {}
    /\ \E k \in Keys \ (hist[lastCall.x].inserted \cup hist[lastCall.x].deleted) :
           /\ thist[hist[lastCall.x].base].ref[k] # NoVal
           /\ \E j \in hist[lastCall.x].inserted : keyHasPrefix(j, k) \/ keyHasPrefix(k, j)

\* C9: a Notify that ran in overflow mode fired exactly the signals of the
\* snapshot's nodes and leaves that are not, by identity, in the committed root.
C9_SlowNotifyIsPointerDiff ==
    (NotifyRan /\ lastCall.mode = "slow")
        => lastCall.fired = PointerDiff(nodes, txns[lastCall.x].snap, txns[lastCall.x].root)

\* an overflowed transaction fired node and leaf signals, and left others alone
C9_Witness ==
    /\ NotifyRan
    /\ lastCall.mode = "slow"
    /\ \E c \in lastCall.fired : c[1] = "leaf"
    /\ \E c \in lastCall.fired : c[1] = "node"
    /\ ChannelsUnder(nodes, txns[lastCall.x].snap, <<>>) \ lastCall.fired # {}

\* C10: after a Notify that ran, and until the next mutation, the tracked set is
\* empty and the overflow flag is clear, and a further Commit or Notify returns
\* without firing a signal.
C10_RenotifyFiresNothing ==
    /\ \A x \in DOMAIN txns :
          hist[x].clean => txns[x].trackChannels = {} /\ ~txns[x].trackOverflow
    /\ (Notified /\ lastCall.again) => panicked = {} /\ lastCall.fired = {}

\* a second Notify of a transaction whose first Notify fired signals
C10_Witness ==
    /\ Notified
    /\ lastCall.again
    /\ hist[lastCall.x].nops > 0
    /\ closed # {}

\* C11: a clone holds the writes its original made before Clone(), and from then
\* on the original and the clone are independent: each transaction, and each
\* tree committed from it, holds exactly the keys of its own calls (and of the
\* original's calls before the clone was made).
C11_CloneIsIndependent ==
    Len(txns) > 1 =>
        /\ \A x \in DOMAIN txns, k \in Keys :
               Get(nodes, leaves, txns[x].root, k) = RefGet(hist[x].ref, k)
        /\ \A tr \in trees, k \in Keys :
               Get(nodes, leaves, tr.root, k) = RefGet(thist[tr].ref, k)

\* A inserts k1, is cloned to B, A inserts k2, B inserts k3, both commit: the
\* two committed trees hold, besides the keys of the tree A was opened on,
\* {k1, k2} and {k1, k3}
C11_Witness ==
    /\ Len(txns) = 2
    /\ calls = 3
    /\ hist[1].committed /\ hist[2].committed
    /\ \A x \in {1, 2} : Cardinality(hist[x].inserted) = 2 /\ hist[x].insOnly
    /\ Cardinality(hist[1].inserted \cap hist[2].inserted) = 1
    /\ \A k \in hist[1].inserted \cup hist[2].inserted : thist[hist[1].base].ref[k] = NoVal
    /\ \E ta \in trees, tb \in trees :
          /\ ta.root = txns[1].root /\ tb.root = txns[2].root
          /\ \A k \in Keys :
                /\ Get(nodes, leaves, ta.root, k).ok
                       <=> (k \in hist[1].inserted \/ thist[hist[1].base].ref[k] # NoVal)
                /\ Get(nodes, leaves, tb.root, k).ok
                       <=> (k \in hist[2].inserted \/ thist[hist[1].base].ref[k] # NoVal)

\* C12: the writable-node cache changes nothing a caller can see: after the
\* same Insert/Delete/DeletePrefix calls and Commit, the transaction with the
\* map cache and the one with no cache hold the same key->value contents and
\* the same Len, and their commits fire the same signals of the tree they
\* were opened on.
C12_CacheChangesOnlyClones ==
    /\ Len(txns) = 2 =>
          /\ Walk(nodes, leaves, txns[1].root) = Walk(nodes, leaves, txns[2].root)
          /\ txns[1].size = txns[2].size
    /\ lastCall.op = "PairCommit" =>
          /\ Walk(nodes, leaves, lastCall.treeMap.root) = Walk(nodes, leaves, lastCall.treeNo.root)
          /\ lastCall.treeMap.size = lastCall.treeNo.size
          /\ lastCall.firedMap \cap ChannelsUnder(nodes, txns[1].snap, <<>>)
                = lastCall.firedNo \cap ChannelsUnder(nodes, txns[2].snap, <<>>)

\* the keys stored in the tree of root n
Stored(n) == {k \in Keys : Get(nodes, leaves, n, k).ok}

\* the keys of a sequence of [key, val]
KeysOf(out) == {out[i].key : i \in 1..Len(out)}

\* out is in strictly ascending key order
Ascending(out) == \A i \in 1..(Len(out) - 1) : keyCompare(out[i].key, out[i + 1].key) < 0

\* out is in strictly descending key order
Descending(out) == \A i \in 1..(Len(out) - 1) : keyCompare(out[i].key, out[i + 1].key) > 0

\* every [key, val] of out is what Get answers for the key in the tree of root n
ValuesOf(n, out) ==
    \A i \in 1..Len(out) : Get(nodes, leaves, n, out[i].key) = [val |-> out[i].val, ok |-> TRUE]

\* C13: SeekLowerBound(q) and Next until it fails return exactly the stored keys
\* k >= q, each once, in ascending order, with their values.
C13_SeekLowerBoundAscending ==
    lastCall.op = "SeekLowerBound" =>
        /\ KeysOf(lastCall.out)
              = {k \in Stored(lastCall.tree.root) : keyCompare(k, lastCall.key) >= 0}
        /\ Ascending(lastCall.out)
        /\ ValuesOf(lastCall.tree.root, lastCall.out)

\* a seek to a key that is not stored, with stored keys below and above it
C13_Witness ==
    /\ lastCall.op = "SeekLowerBound"
    /\ lastCall.key \notin Stored(lastCall.tree.root)
    /\ Len(lastCall.out) >= 2
    /\ \E k \in Stored(lastCall.tree.root) : keyCompare(k, lastCall.key) < 0

\* C14: SeekReverseLowerBound(q) and Previous until it fails return exactly the
\* stored keys k <= q, each once, in descending order, with their values, also
\* when a stored key is a proper prefix of q or of another stored key.
C14_SeekReverseLowerBoundDescending ==
    lastCall.op = "SeekReverseLowerBound" =>
        /\ KeysOf(lastCall.out)
              = {k \in Stored(lastCall.tree.root) : keyCompare(k, lastCall.key) <= 0}
        /\ Descending(lastCall.out)
        /\ ValuesOf(lastCall.tree.root, lastCall.out)

\* a seek to a key that is not stored, with a stored key above it and, below it,
\* a stored key that is a proper prefix of it and of another stored key
C14_Witness ==
    /\ lastCall.op = "SeekReverseLowerBound"
    /\ lastCall.key \notin Stored(lastCall.tree.root)
    /\ Len(lastCall.out) >= 2
    /\ \E k \in Stored(lastCall.tree.root) : keyCompare(k, lastCall.key) > 0
    /\ \E k \in KeysOf(lastCall.out), j \in KeysOf(lastCall.out) :
          /\ k # j /\ keyHasPrefix(j, k)
          /\ keyHasPrefix(lastCall.key, k)

\* C15: WalkPrefix(p), and SeekPrefix(p) followed by Next until it fails, visit
\* exactly the stored keys that have the prefix p, in ascending order, with
\* their values (nothing when no stored key has the prefix p).
C15_PrefixWalkVisitsPrefixed ==
    lastCall.op \in {"WalkPrefix", "SeekPrefix"} =>
        /\ KeysOf(lastCall.out)
              = {k \in Stored(lastCall.tree.root) : keyHasPrefix(k, lastCall.key)}
        /\ Ascending(lastCall.out)
        /\ ValuesOf(lastCall.tree.root, lastCall.out)

\* a walk of a prefix that ends inside the compressed prefix of a node with
\* more than one key under it, in a tree that holds other keys too
C15_Witness ==
    /\ lastCall.op \in {"WalkPrefix", "SeekPrefix"}
    /\ Len(lastCall.out) >= 2
    /\ Len(lastCall.out) < lastCall.tree.size
    /\ \E e \in NodePaths(nodes, lastCall.tree.root, <<>>) :
          /\ keyHasPrefix(e.path, lastCall.key)
          /\ Len(e.path) > Len(lastCall.key)
          /\ Len(e.path) - Len(nodes[e.node].prefix) < Len(lastCall.key)

\* C16: Walk, and Next from the root until it fails, visit every stored key
\* once, in strictly ascending order (a key before the keys it is a prefix of).
C16_WalkAscending ==
    lastCall.op \in {"Walk", "Iterate"} =>
        /\ KeysOf(lastCall.out) = Stored(lastCall.tree.root)
        /\ Ascending(lastCall.out)
        /\ ValuesOf(lastCall.tree.root, lastCall.out)

\* a walk of a tree that holds a key, two keys it is a proper prefix of, and a
\* key it is no prefix of
C16_Witness ==
    /\ lastCall.op \in {"Walk", "Iterate"}
    /\ \E i \in 1..Len(lastCall.out) :
          /\ i + 2 <= Len(lastCall.out)
          /\ keyHasPrefix(lastCall.out[i + 1].key, lastCall.out[i].key)
          /\ keyHasPrefix(lastCall.out[i + 2].key, lastCall.out[i].key)
          /\ \E j \in 1..Len(lastCall.out) :
                ~keyHasPrefix(lastCall.out[j].key, lastCall.out[i].key)

\* C17: WalkBackwards visits every stored key once, in strictly descending
\* order, also when a stored key is a proper prefix of another.
C17_WalkBackwardsDescending ==
    lastCall.op = "WalkBackwards" =>
        /\ KeysOf(lastCall.out) = Stored(lastCall.tree.root)
        /\ Descending(lastCall.out)
        /\ ValuesOf(lastCall.tree.root, lastCall.out)

\* the stored keys that are a prefix of q
PrefixesOf(n, q) == {k \in Stored(n) : keyHasPrefix(q, k)}

\* C18: LongestPrefix(q) returns the longest stored key that is a prefix of q,
\* with its value, and returns not found exactly when no stored key is a
\* prefix of q.
C18_LongestPrefixIsLongest ==
    lastCall.op = "LongestPrefix" =>
        /\ lastCall.out.ok <=> PrefixesOf(lastCall.tree.root, lastCall.key) # {}
        /\ lastCall.out.ok =>
              /\ lastCall.out.key \in PrefixesOf(lastCall.tree.root, lastCall.key)
              /\ \A k \in PrefixesOf(lastCall.tree.root, lastCall.key) :
                     Len(k) <= Len(lastCall.out.key)
              /\ Get(nodes, leaves, lastCall.tree.root, lastCall.out.key)
                     = [val |-> lastCall.out.val, ok |-> TRUE]

\* a query that is not stored and has two stored prefixes, the shorter one not empty
C18_Witness ==
    /\ lastCall.op = "LongestPrefix"
    /\ lastCall.out.ok
    /\ lastCall.out.key # lastCall.key
    /\ \E k \in PrefixesOf(lastCall.tree.root, lastCall.key) :
          k # <<>> /\ k # lastCall.out.key

\* C19: DeletePrefix(p) removes exactly the stored keys that have the prefix p
\* and leaves every other key with its value, also when p ends inside the
\* compressed prefix of a node.
C19_DeletePrefixRemovesPrefixed ==
    lastCall.op = "DeletePrefix" =>
        /\ \A k \in Keys :
               Get(nodes, leaves, txns[lastCall.x].root, k)
                 = IF keyHasPrefix(k, lastCall.key) THEN [val |-> Zero, ok |-> FALSE]
                   ELSE lastCall.before[k]
        /\ KeysOf(Walk(nodes, leaves, txns[lastCall.x].root))
              = {k \in Keys : lastCall.before[k].ok /\ ~keyHasPrefix(k, lastCall.key)}

\* a DeletePrefix(p) with p ending inside the compressed prefix of a node, that
\* removes a key and leaves a key
C19_Witness ==
    /\ lastCall.op = "DeletePrefix"
    /\ lastCall.inside
    /\ \E k \in Keys : lastCall.before[k].ok /\ keyHasPrefix(k, lastCall.key)
    /\ \E k \in Keys : lastCall.before[k].ok /\ ~keyHasPrefix(k, lastCall.key)
                          /\ Get(nodes, leaves, txns[lastCall.x].root, k).ok

\* C20: DeletePrefix(p) returns true exactly when it deleted at least one key,
\* on every tree (the empty one too) and for every prefix (the empty one too).
C20_DeletePrefixTrueIffDeleted ==
    lastCall.op = "DeletePrefix" =>
        (lastCall.ok <=> \E k \in Keys : lastCall.before[k].ok /\ keyHasPrefix(k, lastCall.key))

\* the roots the program holds: of its tree handles and of its transactions
AllRoots == {tr.root : tr \in trees} \cup {txns[x].root : x \in DOMAIN txns}

\* C25: in every reachable node the edge labels are strictly ascending, every
\* child reached through an edge with label L has a non-empty prefix that
\* starts with L, and the prefix of a root is empty.
C25_EdgesSortedAndLabelled ==
    \A r \in AllRoots :
        /\ nodes[r].prefix = <<>>
        /\ \A n \in Reach(nodes, r) :
              /\ \A i \in 1..(Len(nodes[n].edges) - 1) :
                     nodes[n].edges[i].label < nodes[n].edges[i + 1].label
              /\ \A i \in 1..Len(nodes[n].edges) :
                     /\ Len(nodes[nodes[n].edges[i].node].prefix) > 0
                     /\ nodes[nodes[n].edges[i].node].prefix[1] = nodes[n].edges[i].label

\* a transaction made two calls and holds a tree whose root and one more node
\* have two edges each
C25_Witness ==
    \E x \in DOMAIN txns :
        /\ hist[x].nops >= 2
        /\ Len(nodes[txns[x].root].edges) >= 2
        /\ \E n \in Reach(nodes, txns[x].root) \ {txns[x].root} : Len(nodes[n].edges) >= 2

\* C26: no reachable node other than a root has both no leaf and fewer than
\* two edges, between the calls of a transaction and in every committed tree.
C26_NoLeaflessChain ==
    \A r \in AllRoots : \A n \in Reach(nodes, r) \ {r} :
        nodes[n].leaf # NIL \/ Len(nodes[n].edges) >= 2

\* a Delete or DeletePrefix that merged a node with its child: the tree of the
\* transaction has a node with a prefix of two elements that no node of the
\* tree the transaction was opened on has
C26_Witness ==
    /\ lastCall.op \in {"Delete", "DeletePrefix"}
    /\ lastCall.ok
    /\ \E n \in Reach(nodes, txns[lastCall.x].root) \ {txns[lastCall.x].root} :
          /\ Len(nodes[n].prefix) >= 2
          /\ \A m \in Reach(nodes, hist[lastCall.x].base.root) :
                 nodes[m].prefix # nodes[n].prefix

\* C27: the key of every reachable leaf is the concatenation of the node
\* prefixes on the path from the root to the node that holds the leaf.
C27_LeafKeyIsPath ==
    \A r \in AllRoots : \A e \in NodePaths(nodes, r, <<>>) :
        nodes[e.node].leaf # NIL => leaves[nodes[e.node].leaf].key = e.path

\* an Insert that split a node and a Delete that merged one, in a transaction
\* whose tree holds a leaf under a node with a prefix of two elements
C27_Witness ==
    \E x \in DOMAIN txns :
        /\ hist[x].inserted # {} /\ hist[x].found # {}
        /\ \E n \in Reach(nodes, txns[x].root) :
              /\ nodes[n].leaf # NIL
              /\ Len(nodes[n].prefix) >= 2
              /\ \A m \in Reach(nodes, hist[x].base.root) : nodes[m].prefix # nodes[n].prefix

\* the step is the call op of a transaction
CallStep(op) == calls' = calls + 1 /\ lastCall'.op = op

\* C23: Delete(k) of a key that is not stored returns (zero, false) and leaves
\* the transaction as it was: the same root, the same size, no node cloned or
\* changed, no signal added to the tracked set (so a second Delete(k) returns
\* not present).
C23_DeleteAbsentChangesNothing ==
    [][(CallStep("Delete")
          /\ ~Get(nodes, leaves, txns[lastCall'.x].root, lastCall'.key).ok)
        => /\ lastCall'.ok = FALSE
           /\ lastCall'.val = Zero
           /\ txns' = txns
           /\ nodes' = nodes
           /\ leaves' = leaves]_vars

\* a second Delete(k) of a tracking transaction, of a key k that is a proper
\* prefix of a stored key and an extension of another
C23_Witness ==
    /\ lastCall.op = "Delete"
    /\ ~lastCall.ok
    /\ lastCall.key \in hist[lastCall.x].found
    /\ txns[lastCall.x].trackMutate
    /\ \E k \in Stored(txns[lastCall.x].root) :
          k # lastCall.key /\ keyHasPrefix(k, lastCall.key)
    /\ \E k \in Stored(txns[lastCall.x].root) :
          k # <<>> /\ k # lastCall.key /\ keyHasPrefix(lastCall.key, k)

\* C24: Insert(k, v) returns (previous value, true) exactly when k was stored
\* and (zero, false) otherwise; the size grows by one in the second case and
\* stays as it was in the first.
C24_InsertReportsUpdate ==
    [][CallStep("Insert")
        => /\ lastCall'.ok = Get(nodes, leaves, txns[lastCall'.x].root, lastCall'.key).ok
           /\ lastCall'.val = Get(nodes, leaves, txns[lastCall'.x].root, lastCall'.key).val
           /\ txns'[lastCall'.x].size
                = txns[lastCall'.x].size + (IF lastCall'.ok THEN 0 ELSE 1)]_vars

\* an Insert of a stored key, that returned its value, after an Insert of a new key
C24_Witness ==
    /\ lastCall.op = "Insert"
    /\ lastCall.ok
    /\ lastCall.val = 1
    /\ hist[lastCall.x].nops >= 2
    /\ txns[lastCall.x].size = hist[lastCall.x].base.size + 1
\* C21: Insert(k, v) of a key that is not stored, followed by Delete(k), gives
\* back the tree as it was before the Insert: the same Len and the same node
\* shape (prefixes, edges, leaves with their keys and values, so the same
\* ordered key/value sequence too).
C21_InsertDeleteRoundTrip ==
    (lastCall.op = "Delete" /\ lastCall.undo # <<>>) =>
        /\ txns[lastCall.x].size = lastCall.undo[1].size
        /\ Shape(nodes, leaves, txns[lastCall.x].root) = lastCall.undo[1].shape

\* a round trip whose Insert split a node of a tree that holds other keys
C21_Witness ==
    /\ lastCall.op = "Delete" /\ lastCall.undo # <<>>
    /\ lastCall.ok
    /\ txns[lastCall.x].size >= 2
    /\ \E n \in Reach(nodes, txns[lastCall.x].root) \ {txns[lastCall.x].root} :
          /\ Len(nodes[n].prefix) >= 2
          /\ \E e \in NodePaths(nodes, txns[lastCall.x].root, <<>>) :
                /\ e.node = n
                /\ ~keyHasPrefix(lastCall.key, e.path)
                /\ longestPrefix(e.path, lastCall.key) > Len(e.path) - Len(nodes[n].prefix)
\* C22: two trees built by Insert alone that hold the same key->value set,
\* whatever the order of the Inserts, have the same Len and the same ordered
\* (key, value) traversal.
C22_InsertOrderIndependent ==
    \A t1 \in trees, t2 \in trees :
        (thist[t1].insOnly /\ thist[t2].insOnly /\ thist[t1].ref = thist[t2].ref) =>
            /\ t1.size = t2.size
            /\ Walk(nodes, leaves, t1.root) = Walk(nodes, leaves, t2.root)

\* two trees of the same three keys, each built from the empty tree by three
\* Inserts, whose leaves were allocated, hence inserted, in different orders
C22_Witness ==
    \E t1 \in trees, t2 \in trees :
        /\ t1.size = 3 /\ t2.size = 3
        /\ t1.root # t2.root
        /\ calls = 6
        /\ lastCall.op = "Commit"
        /\ txns[lastCall.x].root = t2.root
        /\ hist[lastCall.x].base.size = 0 /\ hist[lastCall.x].nops = 3
        /\ thist[t1].insOnly /\ thist[t2].insOnly
        /\ thist[t1].ref = thist[t2].ref
        /\ \E a1, b1 \in Reach(nodes, t1.root), a2, b2 \in Reach(nodes, t2.root) :
              /\ nodes[a1].leaf # NIL /\ nodes[b1].leaf # NIL
              /\ nodes[a2].leaf # NIL /\ nodes[b2].leaf # NIL
              /\ leaves[nodes[a1].leaf].key = leaves[nodes[a2].leaf].key
              /\ leaves[nodes[b1].leaf].key = leaves[nodes[b2].leaf].key
              /\ nodes[a1].leaf < nodes[b1].leaf /\ nodes[b2].leaf < nodes[a2].leaf

\* C28: a transaction whose tracking is off fires no signal on Commit or
\* Notify; tracking is off in every transaction Tree.Txn returns, in the
\* transactions of Tree.Insert, Tree.Delete and Tree.DeletePrefix, and in every
\* clone, which starts with no tracked signal whatever the original tracked.
C28_TrackingOffFiresNothing ==
    [][/\ (lastCall'.op \in {"Commit", "Notify"} /\ lastCall'.x \in DOMAIN txns
            /\ ~txns[lastCall'.x].trackMutate)
           => (closed' = closed /\ panicked' = panicked)
       /\ (lastCall'.op \in {"Txn", "Clone"} /\ Len(txns') = Len(txns) + 1)
           => /\ ~txns'[Len(txns')].trackMutate
              /\ txns'[Len(txns')].trackChannels = {}
              /\ ~txns'[Len(txns')].trackOverflow
       /\ (lastCall'.op \in {"Tree.Insert", "Tree.Delete", "Tree.DeletePrefix"}
            /\ calls' = calls + 1)
           => (~lastCall'.tracking /\ closed' = closed /\ panicked' = panicked)
      ]_vars

\* the clone of a tracking transaction that held tracked signals has mutated
\* the tree and has committed, and nothing was fired
C28_Witness ==
    /\ Len(txns) = 2
    /\ lastCall.op = "Commit" /\ lastCall.x = 2
    /\ txns[1].trackMutate /\ txns[1].trackChannels # {}
    /\ hist[2].nops > 0
    /\ txns[2].root # txns[1].root
    /\ ~txns[2].trackMutate
    /\ closed = {}

\* C29: signals are fired by Notify and by Commit only; Commit fires them
\* after CommitOnly has built the tree it returns; Insert, Delete,
\* DeletePrefix, Clone, CommitOnly and dropping a transaction fire none.
C29_OnlyNotifyFires ==
    [][/\ closed' # closed => lastCall'.op \in {"Notify", "Commit"}
       /\ (closed' # closed /\ lastCall'.op = "Commit")
           => /\ lastCall'.tree.root = txns[lastCall'.x].root
              /\ lastCall'.tree.size = txns[lastCall'.x].size
              /\ txns'[lastCall'.x].writable = {}
              /\ lastCall'.fired = closed' \ closed
       /\ lastCall'.op \in {"Insert", "Delete", "DeletePrefix", "Clone", "CommitOnly",
                             "Abandon", "Txn", "TrackMutate"}
           => (closed' = closed /\ panicked' = panicked)
      ]_vars

\* a tracking transaction that held tracked signals was dropped, and no
\* signal is fired
C29_Witness ==
    /\ lastCall.op = "Abandon"
    /\ lastCall.tracking
    /\ lastCall.pending # {}
    /\ closed = {}
    /\ calls > 0
\* C30: a node is changed in place only by Insert, Delete or DeletePrefix,
\* and only if the transaction that makes the call allocated it since its
\* last CommitOnly or Clone; no node reachable from a committed tree, or from
\* the root a transaction or a clone started with, is changed in place.
C30_WritesOnlyOwnNodes ==
    [][/\ Len(nodes') >= Len(nodes)
       /\ \A n \in Wrote(nodes, nodes') :
              /\ lastCall'.op \in {"Insert", "Delete", "DeletePrefix"}
              /\ calls' = calls + 1
              /\ n \in lastCall'.wrote
              /\ n \in hist[lastCall'.x].own
              /\ \A tr \in trees : n \notin Reach(nodes, tr.root)
              /\ \A y \in DOMAIN hist : n \notin Reach(nodes, hist[y].start)
      ]_vars

\* a clone has changed in place a node it allocated in an earlier call, after
\* the original went its own way from the root they shared
C30_Witness ==
    /\ Len(txns) = 2
    /\ lastCall.op \in {"Insert", "Delete", "DeletePrefix"}
    /\ lastCall.x = 2
    /\ lastCall.wrote # {}
    /\ lastCall.wrote \subseteq hist[2].own
    /\ hist[1].nops > 0
    /\ txns[1].root # hist[2].start
\* C31: an Insert, Delete or DeletePrefix made on a transaction leaves every
\* tree handle, the ones this transaction returned from Commit or CommitOnly
\* included, with the Get results, the Len and the traversal it had.
C31_CommittedTreeKeepsReads ==
    [][(lastCall'.op \in {"Insert", "Delete", "DeletePrefix"} /\ calls' = calls + 1)
       => /\ trees' = trees
          /\ \A tr \in trees : Observe(nodes', leaves', tr) = Observe(nodes, leaves, tr)
      ]_vars

\* the only transaction there is inserted a key, committed, and has now
\* deleted that key: the tree it committed still holds it
C31_Witness ==
    /\ Len(txns) = 1
    /\ lastCall.op = "Delete" /\ lastCall.ok
    /\ hist[1].nops >= 2
    /\ txns[1].cacheProvider = "MapCache"
    /\ \E tr \in trees :
          /\ tr # hist[1].base
          /\ thist[tr].ref[lastCall.key] \in Vals
          /\ Get(nodes, leaves, tr.root, lastCall.key).ok
          /\ ~Get(nodes, leaves, txns[1].root, lastCall.key).ok

\* C32: in a linear history, right after a Commit no node and no leaf
\* reachable from the root of the tree it returned has a fired signal,
\* whether the signals were fired from the tracked set or by slowNotify.
C32_CommittedTreeHasNoFiredSignal ==
    (lastCall.op = "Commit" /\ panicked = {})
        => ChannelsUnder(nodes, lastCall.tree.root, <<>>) \cap closed = {}

\* the signals slowNotify would close for transaction t, as a set
SlowNotifySet(ns, t) == {slowNotify(ns, t)[i] : i \in 1..Len(slowNotify(ns, t))}

\* C33: when a tracking transaction that stayed within channelLimit commits,
\* the signals of the snapshot's nodes and leaves that its tracked set fires
\* are the signals that slowNotify, the diff of the snapshot against the root,
\* would fire.
C33_FastSetIsSlowDiff ==
    (lastCall.op = "Commit" /\ panicked = {} /\ lastCall.mode = "fast")
        => lastCall.fired \cap ChannelsUnder(nodes, txns[lastCall.x].snap, <<>>)
               = SlowNotifySet(nodes, txns[lastCall.x])
\* C34: the tracked set of a transaction never holds more than channelLimit
\* signals and is empty while the overflow flag is set; tracking a signal when
\* the set holds channelLimit entries sets the flag and discards the set,
\* tracking under the flag changes nothing; only Notify (alone or within
\* Commit) clears the flag.
C34_TrackedSetBounded ==
    [][/\ \A x \in DOMAIN txns' :
              /\ Cardinality(txns'[x].trackChannels) <= txns'[x].channelLimit
              /\ txns'[x].trackOverflow => txns'[x].trackChannels = {}
              /\ \A ch \in ChannelsUnder(nodes', txns'[x].root, <<>>) :
                     \E r \in {trackChannel([nodes |-> nodes', leaves |-> leaves',
                                              t |-> txns'[x]], ch).t} :
                         IF txns'[x].trackOverflow THEN r = txns'[x]
                         ELSE IF Cardinality(txns'[x].trackChannels) >= txns'[x].channelLimit
                         THEN r.trackOverflow /\ r.trackChannels = {}
                         ELSE ~r.trackOverflow
                              /\ r.trackChannels = txns'[x].trackChannels \cup {ch}
       /\ \A x \in DOMAIN txns :
              (Len(txns') = Len(txns) /\ txns[x].trackOverflow /\ ~txns'[x].trackOverflow)
                  => (lastCall'.op \in {"Notify", "Commit"} /\ lastCall'.x = x)
      ]_vars

\* a mutation has just overflowed a tracked set that held channelLimit signals
C34_Witness ==
    /\ lastCall.op \in {"Insert", "Delete", "DeletePrefix"}
    /\ txns[lastCall.x].trackMutate
    /\ txns[lastCall.x].trackOverflow
    /\ txns[lastCall.x].trackChannels = {}
    /\ hist[lastCall.x].nops = 2
    /\ lastCall.wrote # {}
\* C35: with channelLimit 4, a tracking transaction that made 10 inserts of
\* keys no two of which share their first element has its overflow flag set
\* when it commits, and its Commit notifies by slowNotify.
C35_TenInsertsOverflow ==
    /\ \A x \in DOMAIN txns :
          (txns[x].trackMutate /\ hist[x].nops = OverflowInserts /\ ~hist[x].committed)
              => txns[x].trackOverflow
    /\ (lastCall.op = "Commit" /\ hist[lastCall.x].nops = OverflowInserts)
          => lastCall.mode = "slow"
\* C35 as amended: with channelLimit 4, a tracking transaction that made 10
\* inserts of keys no two of which share their first element has its overflow
\* flag set, and its Commit notifies by slowNotify, when the tree has no cache
\* of writable nodes (NoCache); with the map cache and a tree none of whose
\* keys shares its first element with an inserted key, the only signal it
\* tracks is the one of the root it started from, the flag stays clear and
\* its Commit fires that one signal from the tracked set.
C35_TenInsertsOverflowWithoutCache ==
    /\ \A x \in DOMAIN txns :
          (txns[x].trackMutate /\ hist[x].nops = OverflowInserts /\ ~hist[x].committed)
              => /\ txns[x].cacheProvider = "NoCache" => txns[x].trackOverflow
                 /\ (txns[x].cacheProvider = "MapCache"
                       /\ nodes[hist[x].base.root].edges = <<>>)
                        => /\ ~txns[x].trackOverflow
                           /\ txns[x].trackChannels = {NodeCh(hist[x].base.root)}
    /\ (lastCall.op = "Commit" /\ hist[lastCall.x].nops = OverflowInserts)
          => /\ txns[lastCall.x].cacheProvider = "NoCache" => lastCall.mode = "slow"
             /\ (txns[lastCall.x].cacheProvider = "MapCache"
                   /\ nodes[hist[lastCall.x].base.root].edges = <<>>)
                    => /\ lastCall.mode = "fast"
                       /\ lastCall.fired = {NodeCh(hist[lastCall.x].base.root)}

\* a transaction with the map cache has committed its 10 unrelated inserts
\* and notified from the tracked set
C35_Witness ==
    /\ lastCall.op = "Commit"
    /\ hist[lastCall.x].nops = OverflowInserts
    /\ txns[lastCall.x].cacheProvider = "MapCache"
    /\ txns[lastCall.x].channelLimit = OverflowLimit
    /\ txns[lastCall.x].size >= OverflowInserts
    /\ lastCall.mode = "fast"
    /\ lastCall.fired # {}
\* the nodes of the tree of root old that a merge replaced in the tree of root
\* new: nodes whose leaf and edges are, under the same path, those of a node
\* of new with a longer prefix
MergedAway(ns, old, new) ==
    {e.node : e \in {f \in NodePaths(ns, old, <<>>) :
        \E g \in NodePaths(ns, new, <<>>) :
            /\ g.path = f.path
            /\ ns[g.node].leaf = ns[f.node].leaf
            /\ ns[g.node].edges = ns[f.node].edges
            /\ Len(ns[g.node].prefix) > Len(ns[f.node].prefix)}}

\* the nodes of the tree of root old that are not, by identity, in the one of root new
Replaced(ns, old, new) == Reach(ns, old) \ Reach(ns, new)

\* C36: when a transaction opened on T made one Insert or one Delete of a key
\* k and committed, every node of T that the lookup of k in T does not visit
\* is, by identity, a node of the new tree, but for the one child a Delete
\* merged into its parent.
C36_OnlyLookupPathReplaced ==
    (lastCall.op \in {"Commit", "CommitOnly"} /\ panicked = {}
       /\ hist[lastCall.x].nops = 1 /\ ~hist[lastCall.x].usedDeletePrefix)
    => \A k \in hist[lastCall.x].inserted \cup hist[lastCall.x].deleted :
         \E off \in {Replaced(nodes, hist[lastCall.x].base.root, txns[lastCall.x].root)
                        \ LookupPath(nodes, hist[lastCall.x].base.root, k)} :
            IF k \in hist[lastCall.x].deleted
            THEN /\ off \subseteq MergedAway(nodes, hist[lastCall.x].base.root,
                                               txns[lastCall.x].root)
                 /\ Cardinality(off) <= 1
            ELSE off = {}

\* a Delete removed a leaf node and merged its sibling into their parent, and
\* a subtree off the path is shared by the two trees
C36_Witness ==
    /\ lastCall.op = "Commit" /\ panicked = {}
    /\ hist[lastCall.x].nops = 1
    /\ hist[lastCall.x].deleted # {}
    /\ hist[lastCall.x].found # {}
    /\ Replaced(nodes, hist[lastCall.x].base.root, txns[lastCall.x].root)
          \cap MergedAway(nodes, hist[lastCall.x].base.root, txns[lastCall.x].root) # {}
    /\ \E n \in Reach(nodes, hist[lastCall.x].base.root) \cap Reach(nodes, txns[lastCall.x].root) :
          nodes[n].leaf # NIL
\* C37: once a transaction that tracked all its mutations has committed and
\* run Notify, the signal that SeekPrefixWatch(p) returned on the tree it was
\* opened on is fired, for every p that is a prefix of a key the transaction
\* inserted or updated, or of a key of that tree that one of its Delete calls
\* found and removed.
C37_SeekWatchFiresUnderPrefix ==
    (NotifyRan /\ hist[lastCall.x].trackedAll)
        => \A p \in Keys :
           \A k \in hist[lastCall.x].inserted
                      \cup {d \in hist[lastCall.x].found :
                               thist[hist[lastCall.x].base].ref[d] # NoVal} :
               keyHasPrefix(k, p) => hist[lastCall.x].seek[p] \in closed

\* the calls of an iterator past its end
TimesOps == {"NextTimes", "SeekPrefixNextTimes", "SeekLowerBoundNextTimes",
             "PreviousTimes", "SeekReverseLowerBoundPreviousTimes"}

\* C38: WalkPath(p), a PathIterator(p) called until Next fails, yields exactly
\* the stored keys that are prefixes of p (p too when it is stored), the shorter
\* before the longer, and the last key it yields is the answer of
\* LongestPrefix(p) (nothing is yielded exactly when LongestPrefix finds nothing).
C38_WalkPathYieldsStoredPrefixes ==
    lastCall.op = "WalkPath" =>
        LET out == lastCall.out
            lp == LongestPrefix(nodes, leaves, lastCall.tree.root, lastCall.key)
        IN  /\ KeysOf(out) = {k \in Stored(lastCall.tree.root) : keyHasPrefix(lastCall.key, k)}
            /\ \A i \in 1..(Len(out) - 1) : Len(out[i].key) < Len(out[i + 1].key)
            /\ ValuesOf(lastCall.tree.root, out)
            /\ lp.ok = (Len(out) > 0)
            /\ Len(out) > 0 => out[Len(out)].key = lp.key /\ out[Len(out)].val = lp.val

\* a walk along a path that is not stored, that yields two keys or more and
\* ends at a child whose label is on the path and whose prefix is not
C38_Witness ==
    /\ lastCall.op = "WalkPath"
    /\ lastCall.key \notin Stored(lastCall.tree.root)
    /\ Len(lastCall.out) >= 2
    /\ LET last == lastCall.out[Len(lastCall.out)].key
       IN  /\ Len(lastCall.key) > Len(last)
           /\ \E k \in Stored(lastCall.tree.root) :
                 /\ keyHasPrefix(k, last)
                 /\ Len(k) > Len(last)
                 /\ k[Len(last) + 1] = lastCall.key[Len(last) + 1]
                 /\ ~keyHasPrefix(lastCall.key, k)

\* C39: Minimum() returns the smallest stored key and Maximum() the largest, by
\* the order of the keys, with the value stored for it, and both find nothing
\* exactly when the tree holds no key.
C39_MinimumMaximumAreExtremes ==
    lastCall.op \in {"Minimum", "Maximum"} =>
        LET out == lastCall.out
            S == Stored(lastCall.tree.root)
        IN  /\ out.ok = (S # {})
            /\ out.ok =>
                  /\ out.key \in S
                  /\ Get(nodes, leaves, lastCall.tree.root, out.key).val = out.val
                  /\ lastCall.op = "Minimum" => \A k \in S : keyCompare(out.key, k) <= 0
                  /\ lastCall.op = "Maximum" => \A k \in S : keyCompare(out.key, k) >= 0

\* Maximum() on the tree a transaction with a mutation committed, where a stored
\* key is a proper prefix of the maximum
C39_Witness ==
    /\ lastCall.op = "Maximum"
    /\ lastCall.out.ok
    /\ \E x \in DOMAIN hist :
          /\ hist[x].committed
          /\ hist[x].nops > 0
          /\ lastCall.tree # hist[x].base
    /\ \E k \in Stored(lastCall.tree.root) :
          k # lastCall.out.key /\ keyHasPrefix(lastCall.out.key, k)

\* C40: an iterator of a tree with n keys, after a seek or without one, yields
\* at most n times, never the same key twice, has failed by call n + 1, and
\* fails on every call after its first failure.
C40_IteratorsAreFinite ==
    lastCall.op \in TimesOps =>
        LET out == lastCall.out
            n == Cardinality(Stored(lastCall.tree.root))
        IN  /\ Cardinality({i \in 1..Len(out) : out[i].ok}) <= n
            /\ ~out[n + 1].ok
            /\ \A i \in 1..Len(out), j \in 1..Len(out) :
                  /\ i < j /\ ~out[i].ok => ~out[j].ok /\ out[j].key = <<>>
                  /\ i < j /\ out[i].ok /\ out[j].ok => out[i].key # out[j].key

\* an iterator without a seek that yielded the three or more keys of the tree
\* and was called twice or more after that
C40_Witness ==
    /\ lastCall.op = "NextTimes"
    /\ LET n == Cardinality(Stored(lastCall.tree.root))
       IN  /\ n >= 3
           /\ Len(lastCall.out) >= n + 2
           /\ \A i \in 1..n : lastCall.out[i].ok
           /\ ~lastCall.out[n + 1].ok
           /\ ~lastCall.out[n + 2].ok

====
